---------------------------- MODULE Spec2Model ----------------------------
(***************************************************************************)
(* A model of the KML reader (src/src/reader.rs), writer                   *)
(* (src/src/writer.rs) and geometry flattener (src/src/conversion.rs).     *)
(*                                                                         *)
(* The Token Source (quick_xml) is the environment: it hands the reader a  *)
(* forward-only sequence of events and answers end-of-input for ever once  *)
(* the sequence is exhausted.  A string is modelled as a sequence of       *)
(* lexemes (a number, a word, a comma, a white-space character), so that   *)
(* splitting, trimming, parsing and formatting are computed.  Numbers are  *)
(* integers; an Option<T> is a sequence of length 0 (None) or 1 (Some).    *)
(***************************************************************************)
EXTENDS Integers, Sequences, FiniteSets, TLC

VARIABLES
    doc,        \* the XML document behind the Token Source, a forest of nodes
    events,     \* the events of the Token Source, in source order
    pos,        \* the reader's cursor: index of the next event it will read
    phase,      \* "start", "reading", "read", "written", "reread", "flat"
    calls,      \* the results of the read() calls returned so far, in order
    tree,       \* the Document Model value held by the caller
    written,    \* the events KmlWriter.write emitted for tree
    reread,     \* the result of read() on the written text
    coll,       \* the result of quick_collection(tree)
    ty,         \* the value type whose string grammar the caller exercises
    hist,       \* the texts and values from_str and to_string produced, in order
    archive,    \* the entries of the KMZ archive at the path, in index order
    opened      \* the result of from_kmz_path on the archive

vars ==
    <<doc, events, pos, phase, calls, tree, written, reread, coll, ty, hist, archive, opened>>

-----------------------------------------------------------------------------
(* Bounds of the model *)

MaxCalls == 2      \* read() calls made on one reader
MaxGroups == 3     \* boundary groups of a Polygon element
MaxKids == 2       \* children of a container, Placemark or generic element
MaxHist == 4       \* texts and values of one from_str / to_string chain
MaxCoords == 2     \* tuples of a coordinate sequence a caller builds
MaxEntries == 3    \* entries of a KMZ archive

-----------------------------------------------------------------------------
(* Generic helpers *)

None == <<>>
Some(x) == <<x>>

NoAttrs == [k \in {} |-> ""]

RECURSIVE Concat(_)
Concat(ss) == IF ss = <<>> THEN <<>> ELSE Head(ss) \o Concat(Tail(ss))

RECURSIVE SeqsUpTo(_, _)
SeqsUpTo(S, n) ==
    IF n = 0 THEN {<<>>}
    ELSE LET shorter == SeqsUpTo(S, n - 1)
         IN  shorter \cup {Append(s, x) : s \in {t \in shorter : Len(t) = n - 1}, x \in S}

-----------------------------------------------------------------------------
(* Events of the Token Source (quick_xml::events::Event) *)

\* attrs is the attribute list of an open tag, a sequence of <<key, value>>
Ev(t, name, attrs, text) == [t |-> t, name |-> name, attrs |-> attrs, text |-> text]
Start(name, attrs) == Ev("Start", name, attrs, <<>>)
End(name) == Ev("End", name, <<>>, <<>>)
Empty(name, attrs) == Ev("Empty", name, attrs, <<>>)
Text(s) == Ev("Text", "", <<>>, s)
CData(s) == Ev("CData", "", <<>>, s)
Comment == Ev("Comment", "", <<>>, <<>>)
Decl == Ev("Decl", "", <<>>, <<>>)
DocType == Ev("DocType", "", <<>>, <<>>)
Eof == Ev("Eof", "", <<>>, <<>>)

\* reader.read_event_into: the next event, Eof for ever after the last one
At(evs, p) == IF p <= Len(evs) THEN evs[p] ELSE Eof
Adv(evs, p) == IF p <= Len(evs) THEN p + 1 ELSE p

-----------------------------------------------------------------------------
(* Results: Ok(value), Err(error) or a call that never returns *)

Ok(v, p) == [st |-> "ok", val |-> v, pos |-> p]
Err(e, lit, p) == [st |-> "err", val |-> [e |-> e, lit |-> lit], pos |-> p]
Hang(p) == [st |-> "hang", val |-> [e |-> "never returns", lit |-> <<>>], pos |-> p]
\* the thread panics and the call unwinds
Panic(p) == [st |-> "panic", val |-> [e |-> "removal index out of bounds", lit |-> <<>>], pos |-> p]
\* Vec::remove(0): the first item, or a panic on an empty list
remove_first(list, p) == IF list = <<>> THEN Panic(p) ELSE Ok(Head(list), p)

-----------------------------------------------------------------------------
(* Value types: numbers, coordinates, altitude mode *)

NumLexemes == {"0", "1", "2", "3", "4", "1.0", "-1"}
WhiteSpace == {" ", "\n"}

\* str::parse::<f64> on one lexeme
NumOf(l) ==
    CASE l = "0" -> 0
      [] l = "1" -> 1
      [] l = "2" -> 2
      [] l = "3" -> 3
      [] l = "4" -> 4
      [] l = "1.0" -> 1
      [] l = "-1" -> 0 - 1

ParseNum(s) == IF Len(s) = 1 /\ s[1] \in NumLexemes THEN Some(NumOf(s[1])) ELSE None

\* str::parse::<u32>: digits only, no sign and no fraction
ParseU32(s) ==
    IF Len(s) = 1 /\ s[1] \in {"0", "1", "2", "3", "4"} THEN Some(NumOf(s[1])) ELSE None

\* f64 Display
NumToString(n) == <<ToString(n)>>

RECURSIVE SplitOn(_, _, _, _)
\* the pieces of s between the lexemes of seps; cur is the piece being built
SplitOn(s, seps, cur, keepEmpty) ==
    IF s = <<>> THEN (IF cur = <<>> /\ ~keepEmpty THEN <<>> ELSE <<cur>>)
    ELSE IF Head(s) \in seps
         THEN (IF cur = <<>> /\ ~keepEmpty THEN <<>> ELSE <<cur>>)
              \o SplitOn(Tail(s), seps, <<>>, keepEmpty)
         ELSE SplitOn(Tail(s), seps, Append(cur, Head(s)), keepEmpty)

split_whitespace(s) == SplitOn(s, WhiteSpace, <<>>, FALSE)

RECURSIVE TrimStart(_)
TrimStart(s) == IF s # <<>> /\ Head(s) \in WhiteSpace THEN TrimStart(Tail(s)) ELSE s
RECURSIVE TrimEnd(_)
TrimEnd(s) ==
    IF s # <<>> /\ s[Len(s)] \in WhiteSpace THEN TrimEnd(SubSeq(s, 1, Len(s) - 1)) ELSE s
Trim(s) == TrimEnd(TrimStart(s))

MkCoord(x, y, z) == [x |-> x, y |-> y, z |-> z]

Coord_from_str(s) ==
    LET parts == SplitOn(Trim(s), {","}, <<>>, TRUE)
        x == ParseNum(parts[1])
    IN  IF x = None THEN Err("FloatParse", parts[1], 0)
        ELSE IF Len(parts) < 2 THEN Err("CoordEmpty", <<>>, 0)
        ELSE LET y == ParseNum(parts[2])
             IN  IF y = None THEN Err("FloatParse", parts[2], 0)
                 ELSE IF Len(parts) < 3 THEN Ok(MkCoord(x[1], y[1], None), 0)
                 ELSE LET z == ParseNum(parts[3])
                      IN  IF z = None THEN Err("FloatParse", parts[3], 0)
                          ELSE Ok(MkCoord(x[1], y[1], Some(z[1])), 0)

\* a Display that leaves the third component out
Coord_to_string_flat(c) == NumToString(c.x) \o <<",">> \o NumToString(c.y)

\* <Coord as Display>::fmt
Coord_to_string(c) ==
    IF c.z # None
    THEN NumToString(c.x) \o <<",">> \o NumToString(c.y) \o <<",">> \o NumToString(c.z[1])
    ELSE NumToString(c.x) \o <<",">> \o NumToString(c.y)

RECURSIVE CollectCoords(_)
CollectCoords(ws) ==
    IF ws = <<>> THEN Ok(<<>>, 0)
    ELSE LET c == Coord_from_str(Head(ws))
         IN  IF c.st # "ok" THEN c
             ELSE LET rest == CollectCoords(Tail(ws))
                  IN  IF rest.st # "ok" THEN rest ELSE Ok(<<c.val>> \o rest.val, 0)

coords_from_str(s) == CollectCoords(split_whitespace(s))

AltitudeMode_default == "ClampToGround"

AltitudeMode_from_str(s) ==
    CASE s = <<"clampToGround">> -> Ok("ClampToGround", 0)
      [] s = <<"relativeToGround">> -> Ok("RelativeToGround", 0)
      [] s = <<"absolute">> -> Ok("Absolute", 0)
      [] OTHER -> Err("InvalidAltitudeMode", s, 0)

AltitudeMode_to_string(m) ==
    CASE m = "ClampToGround" -> <<"clampToGround">>
      [] m = "RelativeToGround" -> <<"relativeToGround">>
      [] m = "Absolute" -> <<"absolute">>

\* a from_str that also takes the name of the variant
RefreshMode_from_str_loose(s) ==
    CASE s \in {<<"onChange">>, <<"OnChange">>} -> Ok("OnChange", 0)
      [] s \in {<<"onInterval">>, <<"OnInterval">>} -> Ok("OnInterval", 0)
      [] s \in {<<"onExpire">>, <<"OnExpire">>} -> Ok("OnExpire", 0)
      [] OTHER -> Err("InvalidRefreshMode", s, 0)

\* src/src/types/link.rs
RefreshMode_from_str(s) ==
    CASE s = <<"onChange">> -> Ok("OnChange", 0)
      [] s = <<"onInterval">> -> Ok("OnInterval", 0)
      [] s = <<"onExpire">> -> Ok("OnExpire", 0)
      [] OTHER -> Err("InvalidRefreshMode", s, 0)

RefreshMode_to_string(m) ==
    CASE m = "OnChange" -> <<"onChange">>
      [] m = "OnInterval" -> <<"onInterval">>
      [] m = "OnExpire" -> <<"onExpire">>

ViewRefreshMode_from_str(s) ==
    CASE s = <<"never">> -> Ok("Never", 0)
      [] s = <<"onRequest">> -> Ok("OnRequest", 0)
      [] s = <<"onStop">> -> Ok("OnStop", 0)
      [] s = <<"onRegion">> -> Ok("OnRegion", 0)
      [] OTHER -> Err("InvalidViewRefreshMode", s, 0)

ViewRefreshMode_to_string(m) ==
    CASE m = "Never" -> <<"never">>
      [] m = "OnRequest" -> <<"onRequest">>
      [] m = "OnStop" -> <<"onStop">>
      [] m = "OnRegion" -> <<"onRegion">>

\* src/src/types/vec2.rs
Units_default == "Fraction"

Units_from_str(s) ==
    CASE s = <<"fraction">> -> Ok("Fraction", 0)
      [] s = <<"pixels">> -> Ok("Pixels", 0)
      [] s = <<"insetPixels">> -> Ok("InsetPixels", 0)
      [] OTHER -> Err("InvalidUnits", s, 0)

Units_to_string(m) ==
    CASE m = "Fraction" -> <<"fraction">>
      [] m = "Pixels" -> <<"pixels">>
      [] m = "InsetPixels" -> <<"insetPixels">>

\* src/src/types/style.rs
ListItemType_from_str(s) ==
    CASE s = <<"check">> -> Ok("Check", 0)
      [] s = <<"checkOffOnly">> -> Ok("CheckOffOnly", 0)
      [] s = <<"checkHideChildren">> -> Ok("CheckHideChildren", 0)
      [] s = <<"radioFolder">> -> Ok("RadioFolder", 0)
      [] OTHER -> Err("InvalidListItemType", s, 0)

ListItemType_to_string(m) ==
    CASE m = "Check" -> <<"check">>
      [] m = "CheckOffOnly" -> <<"checkOffOnly">>
      [] m = "CheckHideChildren" -> <<"checkHideChildren">>
      [] m = "RadioFolder" -> <<"radioFolder">>

-----------------------------------------------------------------------------
(* Reader: scalar primitives (src/src/reader.rs) *)

\* the `?` operator: an error (or a call that never returns) ends the caller
Try(r, K(_)) == IF r.st # "ok" THEN r ELSE K(r)

\* a conversion result (no cursor of its own) placed at cursor p
AtPos(r, p) == [r EXCEPT !.pos = p]

\* collects the attribute list into a map; quick_xml reports a repeated key as
\* an error, which filter_map(Result::ok) drops, so the first value is kept
read_attrs(e) ==
    LET l == e.attrs
        first(k) == CHOOSE i \in 1..Len(l) : l[i][1] = k /\ \A j \in 1..(i - 1) : l[j][1] # k
    IN  [k \in {l[i][1] : i \in 1..Len(l)} |-> l[first(k)][2]]

RemoveKey(attrs, k) == [a \in DOMAIN attrs \ {k} |-> attrs[a]]
GetKey(attrs, k) == IF k \in DOMAIN attrs THEN Some(attrs[k]) ELSE None

read_str(evs, p) ==
    LET e == At(evs, p)
    IN  CASE e.t = "Text" -> Ok(e.text, Adv(evs, p))
          [] e.t = "CData" -> Ok(e.text, Adv(evs, p))
          [] e.t = "End" -> Ok(<<>>, Adv(evs, p))
          [] OTHER -> Err("InvalidXmlEvent", <<e.t>>, Adv(evs, p))

read_float(evs, p) ==
    Try(read_str(evs, p),
        LAMBDA s : LET n == ParseNum(s.val)
                   IN  IF n = None THEN Err("NumParse", s.val, s.pos) ELSE Ok(n[1], s.pos))

-----------------------------------------------------------------------------
(* Reader: geometries *)

RECURSIVE read_geom_props_loop(_, _, _, _)
read_geom_props_loop(evs, p, end_tag, acc) ==
    LET e == At(evs, p)
        np == Adv(evs, p)
    IN  IF e.t = "Start" THEN
            CASE e.name = "coordinates" ->
                    Try(read_str(evs, np), LAMBDA s :
                    Try(AtPos(coords_from_str(s.val), s.pos), LAMBDA c :
                        read_geom_props_loop(evs, c.pos, end_tag,
                                             [acc EXCEPT !.coords = c.val])))
              [] e.name = "altitudeMode" ->
                    Try(read_str(evs, np), LAMBDA s :
                    Try(AtPos(AltitudeMode_from_str(s.val), s.pos), LAMBDA m :
                        read_geom_props_loop(evs, m.pos, end_tag,
                                             [acc EXCEPT !.altitude_mode = m.val])))
              [] e.name = "extrude" ->
                    Try(read_str(evs, np), LAMBDA s :
                        read_geom_props_loop(evs, s.pos, end_tag,
                                             [acc EXCEPT !.extrude = (s.val = <<"1">>)]))
              [] e.name = "tessellate" ->
                    Try(read_str(evs, np), LAMBDA s :
                        read_geom_props_loop(evs, s.pos, end_tag,
                                             [acc EXCEPT !.tessellate = (s.val = <<"1">>)]))
              [] OTHER -> read_geom_props_loop(evs, np, end_tag, acc)
        ELSE IF e.t = "End" THEN
            IF e.name = end_tag THEN Ok(acc, np)
            ELSE read_geom_props_loop(evs, np, end_tag, acc)
        \* `_ => {}`: every other event is skipped; at end-of-input the next
        \* event is end-of-input again, so the loop never ends
        ELSE IF e.t = "Eof" THEN Hang(p)
        ELSE read_geom_props_loop(evs, np, end_tag, acc)

GeomProps_init ==
    [coords |-> <<>>, altitude_mode |-> AltitudeMode_default,
     extrude |-> FALSE, tessellate |-> FALSE]

\* read_geom_props without the test coords.is_empty()
read_geom_props_unchecked(evs, p, end_tag) ==
    read_geom_props_loop(evs, p, end_tag, GeomProps_init)

read_geom_props(evs, p, end_tag) ==
    Try(read_geom_props_loop(evs, p, end_tag, GeomProps_init), LAMBDA r :
        IF r.val.coords = <<>>
        THEN Err("InvalidGeometry", <<"Geometry must contain coordinates element">>, r.pos)
        ELSE r)

read_point(evs, p, attrs) ==
    Try(read_geom_props(evs, p, "Point"), LAMBDA r :
    Try(remove_first(r.val.coords, r.pos), LAMBDA c :
        Ok([kind |-> "Point", coord |-> c.val,
            altitude_mode |-> r.val.altitude_mode, extrude |-> r.val.extrude,
            attrs |-> attrs], r.pos)))

read_line_string(evs, p, attrs) ==
    Try(read_geom_props(evs, p, "LineString"), LAMBDA r :
        Ok([kind |-> "LineString", coords |-> r.val.coords,
            altitude_mode |-> r.val.altitude_mode, extrude |-> r.val.extrude,
            tessellate |-> r.val.tessellate, attrs |-> attrs], r.pos))

read_linear_ring(evs, p, attrs) ==
    Try(read_geom_props(evs, p, "LinearRing"), LAMBDA r :
        Ok([kind |-> "LinearRing", coords |-> r.val.coords,
            altitude_mode |-> r.val.altitude_mode, extrude |-> r.val.extrude,
            tessellate |-> r.val.tessellate, attrs |-> attrs], r.pos))

LinearRing_default ==
    [kind |-> "LinearRing", coords |-> <<>>, altitude_mode |-> AltitudeMode_default,
     extrude |-> FALSE, tessellate |-> FALSE, attrs |-> NoAttrs]

RECURSIVE read_boundary_loop(_, _, _, _)
read_boundary_loop(evs, p, end_tag, boundary) ==
    LET e == At(evs, p)
        np == Adv(evs, p)
    IN  IF e.t = "Start" THEN
            IF e.name = "LinearRing"
            THEN Try(read_linear_ring(evs, np, read_attrs(e)), LAMBDA r :
                     read_boundary_loop(evs, r.pos, end_tag, Append(boundary, r.val)))
            ELSE read_boundary_loop(evs, np, end_tag, boundary)
        ELSE IF e.t = "End" THEN
            IF e.name = end_tag THEN Ok(boundary, np)
            ELSE read_boundary_loop(evs, np, end_tag, boundary)
        ELSE IF e.t = "Comment" THEN read_boundary_loop(evs, np, end_tag, boundary)
        ELSE Ok(boundary, np)

read_boundary(evs, p, end_tag) == read_boundary_loop(evs, p, end_tag, <<>>)

Polygon_init(attrs) ==
    [kind |-> "Polygon", outer |-> LinearRing_default, inner |-> <<>>,
     altitude_mode |-> AltitudeMode_default, extrude |-> FALSE, tessellate |-> FALSE,
     attrs |-> attrs]

\* a defect: the rings of a group replace the rings read before
inner_replace(inner, boundary) == boundary

\* inner.append(&mut self.read_boundary(b"innerBoundaryIs")?)
inner_append(inner, boundary) == inner \o boundary

RECURSIVE read_polygon_loop(_, _, _)
read_polygon_loop(evs, p, acc) ==
    LET e == At(evs, p)
        np == Adv(evs, p)
    IN  IF e.t = "Start" THEN
            CASE e.name = "outerBoundaryIs" ->
                    Try(read_boundary(evs, np, "outerBoundaryIs"), LAMBDA r :
                        IF r.val = <<>>
                        THEN Err("InvalidGeometry",
                                 <<"Polygon must have an outer boundary">>, r.pos)
                        ELSE Try(remove_first(r.val, r.pos), LAMBDA ring :
                                 read_polygon_loop(evs, r.pos,
                                                   [acc EXCEPT !.outer = ring.val])))
              [] e.name = "innerBoundaryIs" ->
                    Try(read_boundary(evs, np, "innerBoundaryIs"), LAMBDA r :
                        read_polygon_loop(evs, r.pos,
                                          [acc EXCEPT !.inner = inner_append(acc.inner, r.val)]))
              [] e.name = "altitudeMode" ->
                    Try(read_str(evs, np), LAMBDA s :
                    Try(AtPos(AltitudeMode_from_str(s.val), s.pos), LAMBDA m :
                        read_polygon_loop(evs, m.pos,
                                          [acc EXCEPT !.altitude_mode = m.val])))
              [] e.name = "extrude" ->
                    Try(read_str(evs, np), LAMBDA s :
                        read_polygon_loop(evs, s.pos,
                                          [acc EXCEPT !.extrude = (s.val = <<"1">>)]))
              [] e.name = "tessellate" ->
                    Try(read_str(evs, np), LAMBDA s :
                        read_polygon_loop(evs, s.pos,
                                          [acc EXCEPT !.tessellate = (s.val = <<"1">>)]))
              [] OTHER -> read_polygon_loop(evs, np, acc)
        ELSE IF e.t = "End" THEN
            IF e.name = "Polygon" THEN Ok(acc, np) ELSE read_polygon_loop(evs, np, acc)
        ELSE IF e.t = "Comment" THEN read_polygon_loop(evs, np, acc)
        ELSE Ok(acc, np)

read_polygon(evs, p, attrs) == read_polygon_loop(evs, p, Polygon_init(attrs))

RECURSIVE read_multi_geometry_loop(_, _, _)
read_multi_geometry_loop(evs, p, acc) ==
    LET e == At(evs, p)
        np == Adv(evs, p)
        push(r) == read_multi_geometry_loop(evs, r.pos,
                       [acc EXCEPT !.geometries = Append(acc.geometries, r.val)])
    IN  IF e.t = "Start" THEN
            CASE e.name = "Point" -> Try(read_point(evs, np, read_attrs(e)), push)
              [] e.name = "LineString" -> Try(read_line_string(evs, np, read_attrs(e)), push)
              [] e.name = "LinearRing" -> Try(read_linear_ring(evs, np, read_attrs(e)), push)
              [] e.name = "Polygon" -> Try(read_polygon(evs, np, read_attrs(e)), push)
              [] e.name = "MultiGeometry" ->
                    Try(read_multi_geometry_loop(evs, np,
                            [kind |-> "MultiGeometry", geometries |-> <<>>,
                             attrs |-> read_attrs(e)]), push)
              [] OTHER -> read_multi_geometry_loop(evs, np, acc)
        ELSE IF e.t = "End" THEN
            IF e.name = "MultiGeometry" THEN Ok(acc, np)
            ELSE read_multi_geometry_loop(evs, np, acc)
        ELSE IF e.t = "Comment" THEN read_multi_geometry_loop(evs, np, acc)
        ELSE Ok(acc, np)

read_multi_geometry(evs, p, attrs) ==
    read_multi_geometry_loop(evs, p,
        [kind |-> "MultiGeometry", geometries |-> <<>>, attrs |-> attrs])

-----------------------------------------------------------------------------
(* Reader: generic element, placemark, folder *)

RECURSIVE read_element(_, _, _, _)
RECURSIVE read_element_loop(_, _, _, _)
read_element_loop(evs, p, tag, element) ==
    LET e == At(evs, p)
        np == Adv(evs, p)
    IN  IF e.t = "Start" THEN
            Try(read_element(evs, np, e.name, read_attrs(e)), LAMBDA r :
                read_element_loop(evs, r.pos, tag,
                    [element EXCEPT !.children = Append(element.children, r.val)]))
        ELSE IF e.t = "Text" THEN
            read_element_loop(evs, np, tag, [element EXCEPT !.content = Some(e.text)])
        ELSE IF e.t = "End" THEN
            IF e.name = tag THEN Ok(element, np)
            ELSE read_element_loop(evs, np, tag, element)
        ELSE IF e.t = "Comment" THEN read_element_loop(evs, np, tag, element)
        ELSE Ok(element, np)

read_element(evs, p, tag, attrs) ==
    read_element_loop(evs, p, tag,
        [kind |-> "Element", name |-> tag, attrs |-> attrs, content |-> None,
         children |-> <<>>])

Placemark_init(attrs) ==
    [kind |-> "Placemark", name |-> None, description |-> None, style_url |-> None,
     geometry |-> None, attrs |-> attrs, children |-> <<>>]

RECURSIVE read_placemark_loop(_, _, _)
read_placemark_loop(evs, p, acc) ==
    LET e == At(evs, p)
        np == Adv(evs, p)
        geom(r) == read_placemark_loop(evs, r.pos, [acc EXCEPT !.geometry = Some(r.val)])
    IN  IF e.t = "Start" THEN
            CASE e.name = "name" ->
                    Try(read_str(evs, np), LAMBDA s :
                        read_placemark_loop(evs, s.pos, [acc EXCEPT !.name = Some(s.val)]))
              [] e.name = "description" ->
                    Try(read_str(evs, np), LAMBDA s :
                        read_placemark_loop(evs, s.pos,
                                            [acc EXCEPT !.description = Some(s.val)]))
              [] e.name = "styleUrl" ->
                    Try(read_str(evs, np), LAMBDA s :
                        read_placemark_loop(evs, s.pos,
                                            [acc EXCEPT !.style_url = Some(s.val)]))
              [] e.name = "Point" -> Try(read_point(evs, np, read_attrs(e)), geom)
              [] e.name = "LineString" -> Try(read_line_string(evs, np, read_attrs(e)), geom)
              [] e.name = "LinearRing" -> Try(read_linear_ring(evs, np, read_attrs(e)), geom)
              [] e.name = "Polygon" -> Try(read_polygon(evs, np, read_attrs(e)), geom)
              [] e.name = "MultiGeometry" ->
                    Try(read_multi_geometry(evs, np, read_attrs(e)), geom)
              [] OTHER ->
                    Try(read_element(evs, np, e.name, read_attrs(e)), LAMBDA r :
                        read_placemark_loop(evs, r.pos,
                            [acc EXCEPT !.children = Append(acc.children, r.val)]))
        ELSE IF e.t = "End" THEN
            IF e.name = "Placemark" THEN Ok(acc, np) ELSE read_placemark_loop(evs, np, acc)
        \* `_ => {}`: at end-of-input the loop reads end-of-input for ever
        ELSE IF e.t = "Eof" THEN Hang(p)
        ELSE read_placemark_loop(evs, np, acc)

read_placemark(evs, p, attrs) == read_placemark_loop(evs, p, Placemark_init(attrs))

Folder_init(attrs) ==
    [kind |-> "Folder", name |-> None, description |-> None, style_url |-> None,
     attrs |-> attrs, elements |-> <<>>]

RECURSIVE read_folder_loop(_, _, _)
read_folder_loop(evs, p, acc) ==
    LET e == At(evs, p)
        np == Adv(evs, p)
    IN  IF e.t = "Start" THEN
            CASE e.name = "name" ->
                    Try(read_str(evs, np), LAMBDA s :
                        read_folder_loop(evs, s.pos, [acc EXCEPT !.name = Some(s.val)]))
              [] e.name = "description" ->
                    Try(read_str(evs, np), LAMBDA s :
                        read_folder_loop(evs, s.pos,
                                         [acc EXCEPT !.description = Some(s.val)]))
              [] e.name = "styleUrl" ->
                    Try(read_str(evs, np), LAMBDA s :
                        read_folder_loop(evs, s.pos, [acc EXCEPT !.style_url = Some(s.val)]))
              [] OTHER ->
                    Try(read_element(evs, np, e.name, read_attrs(e)), LAMBDA r :
                        read_folder_loop(evs, r.pos,
                            [acc EXCEPT !.elements = Append(acc.elements, r.val)]))
        ELSE IF e.t = "End" THEN
            IF e.name = "Folder" THEN Ok(acc, np) ELSE read_folder_loop(evs, np, acc)
        ELSE IF e.t = "Comment" THEN read_folder_loop(evs, np, acc)
        ELSE Ok(acc, np)

read_folder(evs, p, attrs) == read_folder_loop(evs, p, Folder_init(attrs))

-----------------------------------------------------------------------------
(* Reader: scale, styles *)

\* read_scale's loop without the arm `Event::Comment(_) => {}`
RECURSIVE read_scale_loop_no_comment_arm(_, _, _)
read_scale_loop_no_comment_arm(evs, p, acc) ==
    LET e == At(evs, p)
        np == Adv(evs, p)
        set(f, r) == read_scale_loop_no_comment_arm(evs, r.pos, [acc EXCEPT ![f] = r.val])
    IN  IF e.t = "Start" THEN
            CASE e.name = "x" -> Try(read_float(evs, np), LAMBDA r : set("x", r))
              [] e.name = "y" -> Try(read_float(evs, np), LAMBDA r : set("y", r))
              [] e.name = "z" -> Try(read_float(evs, np), LAMBDA r : set("z", r))
              [] OTHER -> read_scale_loop_no_comment_arm(evs, np, acc)
        ELSE IF e.t = "End" THEN
            IF e.name = "Scale" THEN Ok(acc, np)
            ELSE read_scale_loop_no_comment_arm(evs, np, acc)
        ELSE Ok(acc, np)

RECURSIVE read_scale_loop(_, _, _)
read_scale_loop(evs, p, acc) ==
    LET e == At(evs, p)
        np == Adv(evs, p)
    IN  IF e.t = "Start" THEN
            CASE e.name = "x" ->
                    Try(read_float(evs, np), LAMBDA f :
                        read_scale_loop(evs, f.pos, [acc EXCEPT !.x = f.val]))
              [] e.name = "y" ->
                    Try(read_float(evs, np), LAMBDA f :
                        read_scale_loop(evs, f.pos, [acc EXCEPT !.y = f.val]))
              [] e.name = "z" ->
                    Try(read_float(evs, np), LAMBDA f :
                        read_scale_loop(evs, f.pos, [acc EXCEPT !.z = f.val]))
              [] OTHER -> read_scale_loop(evs, np, acc)
        ELSE IF e.t = "End" THEN
            IF e.name = "Scale" THEN Ok(acc, np) ELSE read_scale_loop(evs, np, acc)
        ELSE IF e.t = "Comment" THEN read_scale_loop(evs, np, acc)
        ELSE Ok(acc, np)

read_scale(evs, p, attrs) ==
    read_scale_loop(evs, p, [kind |-> "Scale", x |-> 1, y |-> 1, z |-> 1, attrs |-> attrs])

ColorMode_from_str(s) ==
    CASE s = <<"normal">> -> Ok("Normal", 0)
      [] s = <<"random">> -> Ok("Random", 0)
      [] OTHER -> Err("InvalidColorMode", s, 0)

ColorMode_to_string(m) ==
    CASE m = "Normal" -> <<"normal">>
      [] m = "Random" -> <<"random">>

RECURSIVE read_line_style_loop(_, _, _)
read_line_style_loop(evs, p, acc) ==
    LET e == At(evs, p)
        np == Adv(evs, p)
    IN  IF e.t = "Start" THEN
            CASE e.name = "color" ->
                    Try(read_str(evs, np), LAMBDA s :
                        read_line_style_loop(evs, s.pos, [acc EXCEPT !.color = s.val]))
              [] e.name = "colorMode" ->
                    Try(read_str(evs, np), LAMBDA s :
                    Try(AtPos(ColorMode_from_str(s.val), s.pos), LAMBDA m :
                        read_line_style_loop(evs, m.pos, [acc EXCEPT !.color_mode = m.val])))
              [] e.name = "width" ->
                    Try(read_float(evs, np), LAMBDA f :
                        read_line_style_loop(evs, f.pos, [acc EXCEPT !.width = f.val]))
              [] OTHER -> read_line_style_loop(evs, np, acc)
        ELSE IF e.t = "End" THEN
            IF e.name = "LineStyle" THEN Ok(acc, np) ELSE read_line_style_loop(evs, np, acc)
        ELSE IF e.t = "Comment" THEN read_line_style_loop(evs, np, acc)
        ELSE Ok(acc, np)

read_line_style(evs, p, attrs) ==
    read_line_style_loop(evs, p,
        [kind |-> "LineStyle", id |-> GetKey(attrs, "id"), color |-> <<"ffffffff">>,
         color_mode |-> "Normal", width |-> 1, attrs |-> RemoveKey(attrs, "id")])

RECURSIVE read_poly_style_loop(_, _, _)
read_poly_style_loop(evs, p, acc) ==
    LET e == At(evs, p)
        np == Adv(evs, p)
    IN  IF e.t = "Start" THEN
            CASE e.name = "color" ->
                    Try(read_str(evs, np), LAMBDA s :
                        read_poly_style_loop(evs, s.pos, [acc EXCEPT !.color = s.val]))
              [] e.name = "colorMode" ->
                    Try(read_str(evs, np), LAMBDA s :
                    Try(AtPos(ColorMode_from_str(s.val), s.pos), LAMBDA m :
                        read_poly_style_loop(evs, m.pos, [acc EXCEPT !.color_mode = m.val])))
              [] e.name = "fill" ->
                    Try(read_str(evs, np), LAMBDA s :
                        read_poly_style_loop(evs, s.pos,
                            [acc EXCEPT !.fill = (s.val # <<"false">> /\ s.val # <<"0">>)]))
              [] e.name = "outline" ->
                    Try(read_str(evs, np), LAMBDA s :
                        read_poly_style_loop(evs, s.pos,
                            [acc EXCEPT !.outline = (s.val # <<"false">> /\ s.val # <<"0">>)]))
              [] OTHER -> read_poly_style_loop(evs, np, acc)
        ELSE IF e.t = "End" THEN
            IF e.name = "PolyStyle" THEN Ok(acc, np) ELSE read_poly_style_loop(evs, np, acc)
        ELSE IF e.t = "Comment" THEN read_poly_style_loop(evs, np, acc)
        ELSE Ok(acc, np)

read_poly_style(evs, p, attrs) ==
    read_poly_style_loop(evs, p,
        [kind |-> "PolyStyle", id |-> GetKey(attrs, "id"), color |-> <<"ffffffff">>,
         color_mode |-> "Normal", fill |-> TRUE, outline |-> TRUE,
         attrs |-> RemoveKey(attrs, "id")])

\* the hotSpot arm of read_icon_style: x and y are parsed, then the units
ReadHotSpot(attrs) ==
    IF "x" \in DOMAIN attrs /\ "y" \in DOMAIN attrs THEN
        LET x == ParseNum(<<attrs["x"]>>)
            y == ParseNum(<<attrs["y"]>>)
            xunits == IF "xunits" \in DOMAIN attrs THEN Units_from_str(<<attrs["xunits"]>>)
                      ELSE Ok(Units_default, 0)
            yunits == IF "yunits" \in DOMAIN attrs THEN Units_from_str(<<attrs["yunits"]>>)
                      ELSE Ok(Units_default, 0)
        IN  IF x = None THEN Err("NumParse", <<attrs["x"]>>, 0)
            ELSE IF y = None THEN Err("NumParse", <<attrs["y"]>>, 0)
            ELSE IF xunits.st # "ok" THEN xunits
            ELSE IF yunits.st # "ok" THEN yunits
            ELSE Ok(Some([x |-> x[1], y |-> y[1], xunits |-> xunits.val,
                          yunits |-> yunits.val]), 0)
    ELSE Ok(None, 0)

RECURSIVE read_basic_link_type_icon_loop(_, _, _)
read_basic_link_type_icon_loop(evs, p, acc) ==
    LET e == At(evs, p)
        np == Adv(evs, p)
    IN  IF e.t = "Start" THEN
            IF e.name = "href"
            THEN Try(read_str(evs, np), LAMBDA s :
                     read_basic_link_type_icon_loop(evs, s.pos, [acc EXCEPT !.href = s.val]))
            ELSE read_basic_link_type_icon_loop(evs, np, acc)
        ELSE IF e.t = "End" THEN
            IF e.name = "Icon" THEN Ok(acc, np)
            ELSE read_basic_link_type_icon_loop(evs, np, acc)
        ELSE IF e.t = "Comment" THEN read_basic_link_type_icon_loop(evs, np, acc)
        ELSE Ok(acc, np)

read_basic_link_type_icon(evs, p, attrs) ==
    read_basic_link_type_icon_loop(evs, p, [href |-> <<>>, attrs |-> attrs])

RECURSIVE read_icon_style_loop(_, _, _)
read_icon_style_loop(evs, p, acc) ==
    LET e == At(evs, p)
        np == Adv(evs, p)
    IN  IF e.t = "Start" THEN
            CASE e.name = "scale" ->
                    Try(read_float(evs, np), LAMBDA f :
                        read_icon_style_loop(evs, f.pos, [acc EXCEPT !.scale = f.val]))
              [] e.name = "heading" ->
                    Try(read_float(evs, np), LAMBDA f :
                        read_icon_style_loop(evs, f.pos, [acc EXCEPT !.heading = f.val]))
              [] e.name = "hotSpot" ->
                    Try(AtPos(ReadHotSpot(read_attrs(e)), np), LAMBDA h :
                        read_icon_style_loop(evs, h.pos,
                            IF h.val # None THEN [acc EXCEPT !.hot_spot = h.val] ELSE acc))
              [] e.name = "Icon" ->
                    Try(read_basic_link_type_icon(evs, np, read_attrs(e)), LAMBDA r :
                        read_icon_style_loop(evs, r.pos, [acc EXCEPT !.icon = r.val]))
              [] e.name = "color" ->
                    Try(read_str(evs, np), LAMBDA s :
                        read_icon_style_loop(evs, s.pos, [acc EXCEPT !.color = s.val]))
              [] e.name = "colorMode" ->
                    Try(read_str(evs, np), LAMBDA s :
                    Try(AtPos(ColorMode_from_str(s.val), s.pos), LAMBDA m :
                        read_icon_style_loop(evs, m.pos, [acc EXCEPT !.color_mode = m.val])))
              [] OTHER -> read_icon_style_loop(evs, np, acc)
        ELSE IF e.t = "End" THEN
            IF e.name = "IconStyle" THEN Ok(acc, np) ELSE read_icon_style_loop(evs, np, acc)
        ELSE IF e.t = "Comment" THEN read_icon_style_loop(evs, np, acc)
        ELSE Ok(acc, np)

read_icon_style(evs, p, attrs) ==
    read_icon_style_loop(evs, p,
        [kind |-> "IconStyle", id |-> GetKey(attrs, "id"), scale |-> 1, heading |-> 0,
         hot_spot |-> None, icon |-> [href |-> <<>>, attrs |-> NoAttrs],
         color |-> <<"ffffffff">>, color_mode |-> "Normal",
         attrs |-> RemoveKey(attrs, "id")])

RECURSIVE read_label_style_loop(_, _, _)
read_label_style_loop(evs, p, acc) ==
    LET e == At(evs, p)
        np == Adv(evs, p)
    IN  IF e.t = "Start" THEN
            CASE e.name = "color" ->
                    Try(read_str(evs, np), LAMBDA s :
                        read_label_style_loop(evs, s.pos, [acc EXCEPT !.color = s.val]))
              [] e.name = "colorMode" ->
                    Try(read_str(evs, np), LAMBDA s :
                    Try(AtPos(ColorMode_from_str(s.val), s.pos), LAMBDA m :
                        read_label_style_loop(evs, m.pos, [acc EXCEPT !.color_mode = m.val])))
              [] e.name = "scale" ->
                    Try(read_float(evs, np), LAMBDA f :
                        read_label_style_loop(evs, f.pos, [acc EXCEPT !.scale = f.val]))
              [] OTHER -> read_label_style_loop(evs, np, acc)
        ELSE IF e.t = "End" THEN
            IF e.name = "LabelStyle" THEN Ok(acc, np) ELSE read_label_style_loop(evs, np, acc)
        ELSE IF e.t = "Comment" THEN read_label_style_loop(evs, np, acc)
        ELSE Ok(acc, np)

read_label_style(evs, p, attrs) ==
    read_label_style_loop(evs, p,
        [kind |-> "LabelStyle", id |-> GetKey(attrs, "id"), color |-> <<"ffffffff">>,
         color_mode |-> "Normal", scale |-> 1, attrs |-> RemoveKey(attrs, "id")])

\* no arm names listItemType: the field keeps ListItemType::default()
RECURSIVE read_list_style_loop(_, _, _)
read_list_style_loop(evs, p, acc) ==
    LET e == At(evs, p)
        np == Adv(evs, p)
    IN  IF e.t = "Start" THEN
            CASE e.name = "bgColor" ->
                    Try(read_str(evs, np), LAMBDA s :
                        read_list_style_loop(evs, s.pos, [acc EXCEPT !.bg_color = s.val]))
              [] e.name = "maxSnippetLines" ->
                    Try(read_str(evs, np), LAMBDA s :
                        LET n == ParseU32(s.val)
                        IN  IF n = None THEN Err("NumParse", s.val, s.pos)
                            ELSE read_list_style_loop(evs, s.pos,
                                     [acc EXCEPT !.max_snippet_lines = n[1]]))
              [] OTHER -> read_list_style_loop(evs, np, acc)
        ELSE IF e.t = "End" THEN
            IF e.name = "ListStyle" THEN Ok(acc, np) ELSE read_list_style_loop(evs, np, acc)
        ELSE IF e.t = "Comment" THEN read_list_style_loop(evs, np, acc)
        ELSE Ok(acc, np)

read_list_style(evs, p, attrs) ==
    read_list_style_loop(evs, p,
        [kind |-> "ListStyle", id |-> GetKey(attrs, "id"), bg_color |-> <<"ffffffff">>,
         max_snippet_lines |-> 2, list_item_type |-> "Check",
         attrs |-> RemoveKey(attrs, "id")])

\* a Default whose refresh interval is zero
Link_default_zero(kind, attrs) ==
    [kind |-> kind, href |-> None, refresh_mode |-> None, refresh_interval |-> 0,
     view_refresh_mode |-> None, view_refresh_time |-> 4, view_bound_scale |-> 1,
     view_format |-> None, http_query |-> None, attrs |-> attrs]

\* Link::default() / LinkTypeIcon::default() (src/src/types/link.rs)
Link_default(kind, attrs) ==
    [kind |-> kind, href |-> None, refresh_mode |-> None, refresh_interval |-> 4,
     view_refresh_mode |-> None, view_refresh_time |-> 4, view_bound_scale |-> 1,
     view_format |-> None, http_query |-> None, attrs |-> attrs]

\* the loop of read_link (end_tag "Link") and of read_link_type_icon (end_tag
\* "Icon"), which have the same arms
RECURSIVE read_link_loop(_, _, _, _)
read_link_loop(evs, p, end_tag, acc) ==
    LET e == At(evs, p)
        np == Adv(evs, p)
        str(F(_)) == Try(read_str(evs, np), LAMBDA s :
                         read_link_loop(evs, s.pos, end_tag, F(Some(s.val))))
        float(F(_)) == Try(read_float(evs, np), LAMBDA f :
                           read_link_loop(evs, f.pos, end_tag, F(f.val)))
    IN  IF e.t = "Start" THEN
            CASE e.name = "href" -> str(LAMBDA v : [acc EXCEPT !.href = v])
              [] e.name = "refreshMode" ->
                    Try(read_str(evs, np), LAMBDA s :
                    Try(AtPos(RefreshMode_from_str(s.val), s.pos), LAMBDA m :
                        read_link_loop(evs, m.pos, end_tag,
                                       [acc EXCEPT !.refresh_mode = Some(m.val)])))
              [] e.name = "refreshInterval" ->
                    float(LAMBDA v : [acc EXCEPT !.refresh_interval = v])
              [] e.name = "viewRefreshMode" ->
                    Try(read_str(evs, np), LAMBDA s :
                    Try(AtPos(ViewRefreshMode_from_str(s.val), s.pos), LAMBDA m :
                        read_link_loop(evs, m.pos, end_tag,
                                       [acc EXCEPT !.view_refresh_mode = Some(m.val)])))
              [] e.name = "viewRefreshTime" ->
                    float(LAMBDA v : [acc EXCEPT !.view_refresh_time = v])
              [] e.name = "viewBoundScale" ->
                    float(LAMBDA v : [acc EXCEPT !.view_bound_scale = v])
              [] e.name = "viewFormat" -> str(LAMBDA v : [acc EXCEPT !.view_format = v])
              [] e.name = "httpQuery" -> str(LAMBDA v : [acc EXCEPT !.http_query = v])
              [] OTHER -> read_link_loop(evs, np, end_tag, acc)
        ELSE IF e.t = "End" THEN
            IF e.name = end_tag THEN Ok(acc, np) ELSE read_link_loop(evs, np, end_tag, acc)
        ELSE IF e.t = "Comment" THEN read_link_loop(evs, np, end_tag, acc)
        ELSE Ok(acc, np)

read_link_type_icon(evs, p, attrs) ==
    read_link_loop(evs, p, "Icon", Link_default("LinkTypeIcon", attrs))

read_link(evs, p, attrs) == read_link_loop(evs, p, "Link", Link_default("Link", attrs))

\* BalloonStyle is not modelled: the Token Source of the model never names it
RECURSIVE read_style_loop(_, _, _)
read_style_loop(evs, p, style) ==
    LET e == At(evs, p)
        np == Adv(evs, p)
    IN  IF e.t = "Start" THEN
            CASE e.name = "LineStyle" ->
                    Try(read_line_style(evs, np, read_attrs(e)), LAMBDA r :
                        read_style_loop(evs, r.pos, [style EXCEPT !.line = Some(r.val)]))
              [] e.name = "IconStyle" ->
                    Try(read_icon_style(evs, np, read_attrs(e)), LAMBDA r :
                        read_style_loop(evs, r.pos, [style EXCEPT !.icon = Some(r.val)]))
              [] e.name = "LabelStyle" ->
                    Try(read_label_style(evs, np, read_attrs(e)), LAMBDA r :
                        read_style_loop(evs, r.pos, [style EXCEPT !.label = Some(r.val)]))
              [] e.name = "PolyStyle" ->
                    Try(read_poly_style(evs, np, read_attrs(e)), LAMBDA r :
                        read_style_loop(evs, r.pos, [style EXCEPT !.poly = Some(r.val)]))
              [] e.name = "ListStyle" ->
                    Try(read_list_style(evs, np, read_attrs(e)), LAMBDA r :
                        read_style_loop(evs, r.pos, [style EXCEPT !.list = Some(r.val)]))
              [] OTHER -> read_style_loop(evs, np, style)
        ELSE IF e.t = "End" THEN
            IF e.name = "Style" THEN Ok(style, np) ELSE read_style_loop(evs, np, style)
        ELSE IF e.t = "Comment" THEN read_style_loop(evs, np, style)
        ELSE Ok(style, np)

read_style(evs, p, attrs) ==
    read_style_loop(evs, p,
        [kind |-> "Style", id |-> GetKey(attrs, "id"), balloon |-> None, icon |-> None,
         label |-> None, line |-> None, poly |-> None, list |-> None,
         attrs |-> RemoveKey(attrs, "id")])

-----------------------------------------------------------------------------
(* Reader: resource map, extended data *)

RECURSIVE read_alias_loop(_, _, _)
read_alias_loop(evs, p, alias) ==
    LET e == At(evs, p)
        np == Adv(evs, p)
    IN  IF e.t = "Start" THEN
            CASE e.name = "targetHref" ->
                    Try(read_str(evs, np), LAMBDA s :
                        read_alias_loop(evs, s.pos, [alias EXCEPT !.target_href = Some(s.val)]))
              [] e.name = "sourceHref" ->
                    Try(read_str(evs, np), LAMBDA s :
                        read_alias_loop(evs, s.pos, [alias EXCEPT !.source_href = Some(s.val)]))
              [] OTHER -> read_alias_loop(evs, np, alias)
        ELSE IF e.t = "End" THEN
            IF e.name = "Alias" THEN Ok(alias, np) ELSE read_alias_loop(evs, np, alias)
        ELSE IF e.t = "Comment" THEN read_alias_loop(evs, np, alias)
        ELSE Ok(alias, np)

read_alias(evs, p, attrs) ==
    read_alias_loop(evs, p,
        [kind |-> "Alias", target_href |-> None, source_href |-> None, attrs |-> attrs])

RECURSIVE read_resource_map_loop(_, _, _)
read_resource_map_loop(evs, p, acc) ==
    LET e == At(evs, p)
        np == Adv(evs, p)
    IN  IF e.t = "Start" THEN
            IF e.name = "Alias"
            THEN LET r == read_alias(evs, np, read_attrs(e))
                 IN  \* `if let Ok(alias) = ...`: an Err is dropped and the loop goes on
                     IF r.st = "ok"
                     THEN read_resource_map_loop(evs, r.pos,
                              [acc EXCEPT !.aliases = Append(acc.aliases, r.val)])
                     ELSE IF r.st = "err" THEN read_resource_map_loop(evs, r.pos, acc)
                     ELSE r
            ELSE read_resource_map_loop(evs, np, acc)
        ELSE IF e.t = "End" THEN
            IF e.name = "ResourceMap" THEN Ok(acc, np)
            ELSE read_resource_map_loop(evs, np, acc)
        ELSE IF e.t = "Comment" THEN read_resource_map_loop(evs, np, acc)
        ELSE Ok(acc, np)

read_resource_map(evs, p, attrs) ==
    read_resource_map_loop(evs, p,
        [kind |-> "ResourceMap", aliases |-> <<>>, attrs |-> attrs])

RECURSIVE read_simple_array_data_loop(_, _, _)
read_simple_array_data_loop(evs, p, acc) ==
    LET e == At(evs, p)
        np == Adv(evs, p)
    IN  IF e.t = "Start" THEN
            IF e.name = "value"
            THEN Try(read_str(evs, np), LAMBDA s :
                     read_simple_array_data_loop(evs, s.pos,
                         [acc EXCEPT !.values = Append(acc.values, s.val)]))
            ELSE read_simple_array_data_loop(evs, np, acc)
        ELSE IF e.t = "End" THEN
            IF e.name = "SimpleArrayData" THEN Ok(acc, np)
            ELSE read_simple_array_data_loop(evs, np, acc)
        ELSE IF e.t = "Comment" THEN read_simple_array_data_loop(evs, np, acc)
        ELSE Ok(acc, np)

read_simple_array_data(evs, p, attrs) ==
    IF "name" \in DOMAIN attrs
    THEN read_simple_array_data_loop(evs, p,
             [kind |-> "SimpleArrayData", name |-> attrs["name"], values |-> <<>>,
              attrs |-> RemoveKey(attrs, "name")])
    ELSE Err("InvalidInput", <<"Required name attribute not present">>, p)

\* a reader that does not require the name attribute
read_simple_data_unnamed(evs, p, attrs) ==
    Try(read_str(evs, p), LAMBDA s :
        Ok([kind |-> "SimpleData", name |-> "", value |-> s.val, attrs |-> attrs], s.pos))

read_simple_data(evs, p, attrs) ==
    IF "name" \in DOMAIN attrs
    THEN Try(read_str(evs, p), LAMBDA s :
             Ok([kind |-> "SimpleData", name |-> attrs["name"], value |-> s.val,
                 attrs |-> RemoveKey(attrs, "name")], s.pos))
    ELSE Err("InvalidInput", <<"Required name attribute not present">>, p)

RECURSIVE read_schema_data_loop(_, _, _)
read_schema_data_loop(evs, p, acc) ==
    LET e == At(evs, p)
        np == Adv(evs, p)
    IN  IF e.t = "Start" THEN
            CASE e.name = "SimpleData" ->
                    LET r == read_simple_data(evs, np, read_attrs(e))
                    IN  IF r.st = "ok"
                        THEN read_schema_data_loop(evs, r.pos,
                                 [acc EXCEPT !.data = Append(acc.data, r.val)])
                        ELSE IF r.st = "err" THEN read_schema_data_loop(evs, r.pos, acc)
                        ELSE r
              [] e.name = "SimpleArrayData" ->
                    LET r == read_simple_array_data(evs, np, read_attrs(e))
                    IN  IF r.st = "ok"
                        THEN read_schema_data_loop(evs, r.pos,
                                 [acc EXCEPT !.arrays = Append(acc.arrays, r.val)])
                        ELSE IF r.st = "err" THEN read_schema_data_loop(evs, r.pos, acc)
                        ELSE r
              [] OTHER -> read_schema_data_loop(evs, np, acc)
        ELSE IF e.t = "End" THEN
            IF e.name = "SchemaData" THEN Ok(acc, np)
            ELSE read_schema_data_loop(evs, np, acc)
        \* `_ => {}`: at end-of-input the loop reads end-of-input for ever
        ELSE IF e.t = "Eof" THEN Hang(p)
        ELSE read_schema_data_loop(evs, np, acc)

read_schema_data(evs, p, attrs) ==
    read_schema_data_loop(evs, p,
        [kind |-> "SchemaData", data |-> <<>>, arrays |-> <<>>, attrs |-> attrs])

-----------------------------------------------------------------------------
(* Reader: the dispatcher and the entry point *)

KmlDocument_of(elements) ==
    [kind |-> "KmlDocument", version |-> "Unknown", attrs |-> NoAttrs,
     elements |-> elements]

\* The element names dispatched here are the ones the Token Source of the
\* model can name; Orientation, Location, StyleMap, Pair and BalloonStyle are
\* not among them.
RECURSIVE read_elements(_, _, _)
RECURSIVE read_kml_document(_, _)
read_elements(evs, p, elements) ==
    LET e == At(evs, p)
        np == Adv(evs, p)
        a == read_attrs(e)
        push(r) == read_elements(evs, r.pos, Append(elements, r.val))
    IN  IF e.t = "Start" THEN
            CASE e.name = "kml" ->
                    Try(read_kml_document(evs, np), push)
              [] e.name = "Scale" -> Try(read_scale(evs, np, a), push)
              [] e.name = "Point" -> Try(read_point(evs, np, a), push)
              [] e.name = "LineString" -> Try(read_line_string(evs, np, a), push)
              [] e.name = "LinearRing" -> Try(read_linear_ring(evs, np, a), push)
              [] e.name = "Polygon" -> Try(read_polygon(evs, np, a), push)
              [] e.name = "MultiGeometry" -> Try(read_multi_geometry(evs, np, a), push)
              [] e.name = "Placemark" -> Try(read_placemark(evs, np, a), push)
              [] e.name = "Document" ->
                    Try(read_elements(evs, np, <<>>), LAMBDA r :
                        read_elements(evs, r.pos,
                            Append(elements, [kind |-> "Document", attrs |-> a,
                                              elements |-> r.val])))
              [] e.name = "Folder" -> Try(read_folder(evs, np, a), push)
              [] e.name = "Style" -> Try(read_style(evs, np, a), push)
              [] e.name = "IconStyle" -> Try(read_icon_style(evs, np, a), push)
              [] e.name = "Link" -> Try(read_link(evs, np, a), push)
              [] e.name = "Icon" -> Try(read_link_type_icon(evs, np, a), push)
              [] e.name = "ResourceMap" -> Try(read_resource_map(evs, np, a), push)
              [] e.name = "Alias" -> Try(read_alias(evs, np, a), push)
              [] e.name = "SchemaData" -> Try(read_schema_data(evs, np, a), push)
              [] e.name = "SimpleArrayData" -> Try(read_simple_array_data(evs, np, a), push)
              [] e.name = "SimpleData" -> Try(read_simple_data(evs, np, a), push)
              [] e.name = "LabelStyle" -> Try(read_label_style(evs, np, a), push)
              [] e.name = "LineStyle" -> Try(read_line_style(evs, np, a), push)
              [] e.name = "PolyStyle" -> Try(read_poly_style(evs, np, a), push)
              [] e.name = "ListStyle" -> Try(read_list_style(evs, np, a), push)
              [] OTHER -> Try(read_element(evs, np, e.name, a), push)
        ELSE IF e.t = "End" THEN
            IF e.name \in {"Folder", "Document"} THEN Ok(elements, np)
            ELSE read_elements(evs, np, elements)
        ELSE IF e.t \in {"Decl", "CData", "Empty", "Text", "Comment"} THEN
            read_elements(evs, np, elements)
        ELSE IF e.t = "Eof" THEN Ok(elements, np)
        ELSE Err("InvalidInput", <<e.t>>, np)

read_kml_document(evs, p) ==
    Try(read_elements(evs, p, <<>>), LAMBDA r : Ok(KmlDocument_of(r.val), r.pos))

\* a read() that starts again at the first event instead of the reader's cursor
read_from_start(evs, p) ==
    Try(read_elements(evs, 1, <<>>), LAMBDA r :
        IF Len(r.val) > 1 THEN Ok(KmlDocument_of(r.val), r.pos)
        ELSE IF Len(r.val) = 1 THEN Ok(Head(r.val), r.pos)
        ELSE Err("NoElements", <<>>, r.pos))

read(evs, p) ==
    Try(read_elements(evs, p, <<>>), LAMBDA r :
        IF Len(r.val) > 1 THEN Ok(KmlDocument_of(r.val), r.pos)
        ELSE IF Len(r.val) = 1 THEN Ok(Head(r.val), r.pos)
        ELSE Err("NoElements", <<>>, r.pos))

-----------------------------------------------------------------------------
(* Writer (src/src/writer.rs): the events KmlWriter emits for a tree *)

RECURSIVE SetToSeq(_)
SetToSeq(S) == IF S = {} THEN <<>> ELSE LET x == CHOOSE y \in S : TRUE
                                        IN  <<x>> \o SetToSeq(S \ {x})

\* the entries of a HashMap in its iteration order (some fixed order)
hash_map_as_attrs(hash_map) ==
    LET ks == SetToSeq(DOMAIN hash_map)
    IN  [i \in 1..Len(ks) |-> <<ks[i], hash_map[ks[i]]>>]

hash_map_as_attrs_filtered(hash_map, filter_hash_map) ==
    hash_map_as_attrs(filter_hash_map)
        \o hash_map_as_attrs([k \in DOMAIN hash_map \ DOMAIN filter_hash_map |-> hash_map[k]])

\* `vec![("id", id)]` (when the id is set) chained with the attribute map
IdFirst(id, attrs) ==
    (IF id # None THEN <<<<"id", id[1]>>>> ELSE <<>>) \o hash_map_as_attrs(attrs)

\* a text element written without its End event
write_text_element_unclosed(tag, content) == <<Start(tag, <<>>), Text(content)>>

write_text_element(tag, content) == <<Start(tag, <<>>), Text(content), End(tag)>>

BoolDigit(b) == IF b THEN <<"1">> ELSE <<"0">>
\* bool::to_string
BoolWord(b) == IF b THEN <<"true">> ELSE <<"false">>

RECURSIVE JoinLines(_)
JoinLines(ss) ==
    IF ss = <<>> THEN <<>>
    ELSE IF Len(ss) = 1 THEN Head(ss)
    ELSE Head(ss) \o <<"\n">> \o JoinLines(Tail(ss))

write_geom_props(props) ==
    write_text_element("extrude", BoolDigit(props.extrude))
    \o write_text_element("tessellate", BoolDigit(props.tessellate))
    \o write_text_element("altitudeMode", AltitudeMode_to_string(props.altitude_mode))
    \o (IF props.coords # <<>>
        THEN write_text_element("coordinates",
                 JoinLines([i \in 1..Len(props.coords) |-> Coord_to_string(props.coords[i])]))
        ELSE <<>>)

write_scale(scale) ==
    <<Start("Scale", hash_map_as_attrs(scale.attrs))>>
    \o write_text_element("x", NumToString(scale.x))
    \o write_text_element("y", NumToString(scale.y))
    \o write_text_element("z", NumToString(scale.z))
    \o <<End("Scale")>>

write_point(point) ==
    <<Start("Point", hash_map_as_attrs(point.attrs))>>
    \o write_text_element("extrude", BoolDigit(point.extrude))
    \o write_text_element("altitudeMode", AltitudeMode_to_string(point.altitude_mode))
    \o write_text_element("coordinates", Coord_to_string(point.coord))
    \o <<End("Point")>>

write_line_string(line_string) ==
    <<Start("LineString", hash_map_as_attrs(line_string.attrs))>>
    \o write_geom_props(line_string)
    \o <<End("LineString")>>

write_linear_ring(linear_ring) ==
    <<Start("LinearRing", hash_map_as_attrs(linear_ring.attrs))>>
    \o write_geom_props(linear_ring)
    \o <<End("LinearRing")>>

write_polygon(polygon) ==
    <<Start("Polygon", hash_map_as_attrs(polygon.attrs))>>
    \o write_geom_props([coords |-> <<>>, altitude_mode |-> polygon.altitude_mode,
                         extrude |-> polygon.extrude, tessellate |-> polygon.tessellate])
    \o <<Start("outerBoundaryIs", <<>>)>>
    \o write_linear_ring(polygon.outer)
    \o <<End("outerBoundaryIs")>>
    \o (IF polygon.inner # <<>>
        THEN <<Start("innerBoundaryIs", <<>>)>>
             \o Concat([i \in 1..Len(polygon.inner) |-> write_linear_ring(polygon.inner[i])])
             \o <<End("innerBoundaryIs")>>
        ELSE <<>>)
    \o <<End("Polygon")>>

RECURSIVE write_geometry(_)
write_multi_geometry(multi_geometry) ==
    <<Start("MultiGeometry", hash_map_as_attrs(multi_geometry.attrs))>>
    \o Concat([i \in 1..Len(multi_geometry.geometries) |->
                   write_geometry(multi_geometry.geometries[i])])
    \o <<End("MultiGeometry")>>

write_geometry(geometry) ==
    CASE geometry.kind = "Point" -> write_point(geometry)
      [] geometry.kind = "LineString" -> write_line_string(geometry)
      [] geometry.kind = "LinearRing" -> write_linear_ring(geometry)
      [] geometry.kind = "Polygon" -> write_polygon(geometry)
      [] geometry.kind = "MultiGeometry" -> write_multi_geometry(geometry)
      [] OTHER -> <<>>

RECURSIVE write_element(_)
write_element(e) ==
    <<Start(e.name, hash_map_as_attrs(e.attrs))>>
    \o (IF e.content # None THEN <<Text(e.content[1])>> ELSE <<>>)
    \o Concat([i \in 1..Len(e.children) |-> write_element(e.children[i])])
    \o <<End(e.name)>>

write_placemark(placemark) ==
    <<Start("Placemark", hash_map_as_attrs(placemark.attrs))>>
    \o (IF placemark.name # None
        THEN write_text_element("name", placemark.name[1]) ELSE <<>>)
    \o (IF placemark.description # None
        THEN write_text_element("description", placemark.description[1]) ELSE <<>>)
    \o Concat([i \in 1..Len(placemark.children) |-> write_element(placemark.children[i])])
    \o (IF placemark.geometry # None THEN write_geometry(placemark.geometry[1]) ELSE <<>>)
    \o (IF placemark.style_url # None
        THEN write_text_element("styleUrl", placemark.style_url[1]) ELSE <<>>)
    \o <<End("Placemark")>>

write_line_style(line_style) ==
    <<Start("LineStyle", IdFirst(line_style.id, line_style.attrs))>>
    \o write_text_element("color", line_style.color)
    \o write_text_element("colorMode", ColorMode_to_string(line_style.color_mode))
    \o write_text_element("width", NumToString(line_style.width))
    \o <<End("LineStyle")>>

write_poly_style(poly_style) ==
    <<Start("PolyStyle", IdFirst(poly_style.id, poly_style.attrs))>>
    \o write_text_element("color", poly_style.color)
    \o write_text_element("colorMode", ColorMode_to_string(poly_style.color_mode))
    \o write_text_element("fill", BoolWord(poly_style.fill))
    \o write_text_element("outline", BoolWord(poly_style.outline))
    \o <<End("PolyStyle")>>

write_icon(icon) ==
    <<Start("Icon", <<>>)>> \o write_text_element("href", icon.href) \o <<End("Icon")>>

write_icon_style(icon_style) ==
    <<Start("IconStyle", IdFirst(icon_style.id, icon_style.attrs))>>
    \o write_text_element("scale", NumToString(icon_style.scale))
    \o write_text_element("heading", NumToString(icon_style.heading))
    \o (IF icon_style.hot_spot # None
        THEN LET hot_spot == icon_style.hot_spot[1]
             IN  <<Start("hotSpot", <<<<"x", NumToString(hot_spot.x)[1]>>,
                                     <<"y", NumToString(hot_spot.y)[1]>>,
                                     <<"xunits", Units_to_string(hot_spot.xunits)[1]>>,
                                     <<"yunits", Units_to_string(hot_spot.yunits)[1]>>>>),
                   End("hotSpot")>>
        ELSE <<>>)
    \o write_text_element("color", icon_style.color)
    \o write_text_element("colorMode", ColorMode_to_string(icon_style.color_mode))
    \o write_icon(icon_style.icon)
    \o <<End("IconStyle")>>

write_label_style(label_style) ==
    <<Start("LabelStyle", IdFirst(label_style.id, label_style.attrs))>>
    \o write_text_element("color", label_style.color)
    \o write_text_element("colorMode", ColorMode_to_string(label_style.color_mode))
    \o write_text_element("scale", NumToString(label_style.scale))
    \o <<End("LabelStyle")>>

write_list_style(list_style) ==
    <<Start("ListStyle", IdFirst(list_style.id, list_style.attrs))>>
    \o write_text_element("bgColor", list_style.bg_color)
    \o write_text_element("maxSnippetLines", NumToString(list_style.max_snippet_lines))
    \o <<End("ListStyle")>>

\* write_link (tag "Link") and write_link_type_icon (tag "Icon") emit the same
\* children
write_link_as(tag, link) ==
    <<Start(tag, hash_map_as_attrs(link.attrs))>>
    \o (IF link.href # None THEN write_text_element("href", link.href[1]) ELSE <<>>)
    \o (IF link.refresh_mode # None
        THEN write_text_element("refreshMode", RefreshMode_to_string(link.refresh_mode[1]))
        ELSE <<>>)
    \o write_text_element("refreshInterval", NumToString(link.refresh_interval))
    \o (IF link.view_refresh_mode # None
        THEN write_text_element("viewRefreshMode",
                                ViewRefreshMode_to_string(link.view_refresh_mode[1]))
        ELSE <<>>)
    \o write_text_element("viewRefreshTime", NumToString(link.view_refresh_time))
    \o write_text_element("viewBoundScale", NumToString(link.view_bound_scale))
    \o (IF link.view_format # None
        THEN write_text_element("viewFormat", link.view_format[1]) ELSE <<>>)
    \o (IF link.http_query # None
        THEN write_text_element("httpQuery", link.http_query[1]) ELSE <<>>)
    \o <<End(tag)>>

write_link_type_icon(icon) == write_link_as("Icon", icon)

write_link(link) == write_link_as("Link", link)

write_style(style) ==
    <<Start("Style", IdFirst(style.id, style.attrs))>>
    \o (IF style.icon # None THEN write_icon_style(style.icon[1]) ELSE <<>>)
    \o (IF style.label # None THEN write_label_style(style.label[1]) ELSE <<>>)
    \o (IF style.line # None THEN write_line_style(style.line[1]) ELSE <<>>)
    \o (IF style.poly # None THEN write_poly_style(style.poly[1]) ELSE <<>>)
    \o (IF style.list # None THEN write_list_style(style.list[1]) ELSE <<>>)
    \o <<End("Style")>>

write_alias(alias) ==
    <<Start("Alias", hash_map_as_attrs(alias.attrs))>>
    \o (IF alias.target_href # None
        THEN write_text_element("targetHref", alias.target_href[1]) ELSE <<>>)
    \o (IF alias.source_href # None
        THEN write_text_element("sourceHref", alias.source_href[1]) ELSE <<>>)
    \o <<End("Alias")>>

write_resource_map(resource_map) ==
    <<Start("ResourceMap", hash_map_as_attrs(resource_map.attrs))>>
    \o Concat([i \in 1..Len(resource_map.aliases) |-> write_alias(resource_map.aliases[i])])
    \o <<End("ResourceMap")>>

write_simple_array_data(simple_array_data) ==
    <<Start("SimpleArrayData",
            hash_map_as_attrs_filtered(simple_array_data.attrs,
                                       [k \in {"name"} |-> simple_array_data.name]))>>
    \o Concat([i \in 1..Len(simple_array_data.values) |->
                   write_text_element("value", simple_array_data.values[i])])
    \o <<End("SimpleArrayData")>>

write_simple_data(simple_data) ==
    <<Start("SimpleData",
            hash_map_as_attrs_filtered(simple_data.attrs,
                                       [k \in {"name"} |-> simple_data.name])),
      Text(simple_data.value),
      End("SimpleData")>>

write_schema_data(schema_data) ==
    <<Start("SchemaData", hash_map_as_attrs(schema_data.attrs))>>
    \o Concat([i \in 1..Len(schema_data.data) |-> write_simple_data(schema_data.data[i])])
    \o Concat([i \in 1..Len(schema_data.arrays) |->
                   write_simple_array_data(schema_data.arrays[i])])
    \o <<End("SchemaData")>>

RECURSIVE write_kml(_)
write_container(tag, attrs, elements) ==
    <<Start(tag, hash_map_as_attrs(attrs))>>
    \o Concat([i \in 1..Len(elements) |-> write_kml(elements[i])])
    \o <<End(tag)>>

write_folder(folder) ==
    <<Start("Folder", hash_map_as_attrs(folder.attrs))>>
    \o (IF folder.name # None THEN write_text_element("name", folder.name[1]) ELSE <<>>)
    \o (IF folder.description # None
        THEN write_text_element("description", folder.description[1]) ELSE <<>>)
    \o Concat([i \in 1..Len(folder.elements) |-> write_kml(folder.elements[i])])
    \o <<End("Folder")>>

write_kml(k) ==
    CASE k.kind = "KmlDocument" -> write_container("kml", k.attrs, k.elements)
      [] k.kind = "Scale" -> write_scale(k)
      [] k.kind = "Point" -> write_point(k)
      [] k.kind = "LineString" -> write_line_string(k)
      [] k.kind = "LinearRing" -> write_linear_ring(k)
      [] k.kind = "Polygon" -> write_polygon(k)
      [] k.kind = "MultiGeometry" -> write_multi_geometry(k)
      [] k.kind = "Placemark" -> write_placemark(k)
      [] k.kind = "Style" -> write_style(k)
      [] k.kind = "IconStyle" -> write_icon_style(k)
      [] k.kind = "Link" -> write_link(k)
      [] k.kind = "LinkTypeIcon" -> write_link_type_icon(k)
      [] k.kind = "LabelStyle" -> write_label_style(k)
      [] k.kind = "LineStyle" -> write_line_style(k)
      [] k.kind = "PolyStyle" -> write_poly_style(k)
      [] k.kind = "ListStyle" -> write_list_style(k)
      [] k.kind = "ResourceMap" -> write_resource_map(k)
      [] k.kind = "Alias" -> write_alias(k)
      [] k.kind = "SchemaData" -> write_schema_data(k)
      [] k.kind = "SimpleArrayData" -> write_simple_array_data(k)
      [] k.kind = "SimpleData" -> write_simple_data(k)
      [] k.kind = "Document" -> write_container("Document", k.attrs, k.elements)
      [] k.kind = "Folder" -> write_folder(k)
      [] k.kind = "Element" -> write_element(k)

\* The written bytes, tokenized again by a reader configured with
\* trim_text(true): text is trimmed and an empty text yields no event.
Tokenize(evs) ==
    LET trimmed == [i \in 1..Len(evs) |->
                       IF evs[i].t = "Text" THEN Text(Trim(evs[i].text)) ELSE evs[i]]
        kept(e) == ~(e.t = "Text" /\ e.text = <<>>)
    IN  SelectSeq(trimmed, kept)

-----------------------------------------------------------------------------
(* Flattener (src/src/conversion.rs): Document Model to geo_types *)

MapSeq(s, F(_)) == [i \in 1..Len(s) |-> F(s[i])]

geo_Coordinate(val) == [x |-> val.x, y |-> val.y]

geo_Point(val) == [g |-> "Point", c |-> geo_Coordinate(val.coord)]

\* both LineString and LinearRing become a geo_types LineString
geo_LineString(val) == [g |-> "LineString", cs |-> MapSeq(val.coords, geo_Coordinate)]

\* geo_types::Polygon::new closes every ring whose two ends differ
close(ls) ==
    IF ls.cs # <<>> /\ ls.cs[1] # ls.cs[Len(ls.cs)]
    THEN [ls EXCEPT !.cs = Append(ls.cs, ls.cs[1])]
    ELSE ls

geo_Polygon(val) ==
    [g |-> "Polygon", exterior |-> close(geo_LineString(val.outer)),
     interiors |-> MapSeq(val.inner, LAMBDA r : close(geo_LineString(r)))]

\* collect::<Result<Vec<_>, _>>(): the values in order, or the first error
RECURSIVE CollectResults(_, _)
CollectResults(rs, acc) ==
    IF rs = <<>> THEN Ok(acc, 0)
    ELSE IF Head(rs).st # "ok" THEN Head(rs)
    ELSE CollectResults(Tail(rs), Append(acc, Head(rs).val))

RECURSIVE Geometry_try_from(_)
GeometryCollection_try_from(val) ==
    CollectResults(MapSeq(val.geometries, Geometry_try_from), <<>>)

Geometry_try_from(val) ==
    CASE val.kind = "Point" -> Ok(geo_Point(val), 0)
      [] val.kind = "LineString" -> Ok(geo_LineString(val), 0)
      [] val.kind = "LinearRing" -> Ok(geo_LineString(val), 0)
      [] val.kind = "Polygon" -> Ok(geo_Polygon(val), 0)
      [] val.kind = "MultiGeometry" ->
            Try(GeometryCollection_try_from(val), LAMBDA r :
                Ok([g |-> "GeometryCollection", gs |-> r.val], 0))
      [] OTHER -> Err("InvalidGeometry", <<"Can't convert geometry">>, 0)

\* elements.into_iter().flat_map(process_kml).flatten().collect(): a Result
\* iterates over its Ok value only, so the list of a child that failed is
\* skipped and the lists of the other children are concatenated
\* a defect: the lists of the children are concatenated last child first
RECURSIVE flat_map_reversed(_)
flat_map_reversed(rs) ==
    IF rs = <<>> THEN <<>>
    ELSE flat_map_reversed(Tail(rs)) \o (IF Head(rs).st = "ok" THEN Head(rs).val ELSE <<>>)

RECURSIVE flat_map_flatten(_)
flat_map_flatten(rs) ==
    IF rs = <<>> THEN <<>>
    ELSE (IF Head(rs).st = "ok" THEN Head(rs).val ELSE <<>>) \o flat_map_flatten(Tail(rs))

RECURSIVE process_kml(_)
process_kml(k) ==
    CASE k.kind \in {"KmlDocument", "Document", "Folder"} ->
            Ok(flat_map_flatten(MapSeq(k.elements, process_kml)), 0)
      [] k.kind = "Point" -> Ok(<<geo_Point(k)>>, 0)
      [] k.kind \in {"LineString", "LinearRing"} -> Ok(<<geo_LineString(k)>>, 0)
      [] k.kind = "Polygon" -> Ok(<<geo_Polygon(k)>>, 0)
      [] k.kind = "MultiGeometry" -> GeometryCollection_try_from(k)
      [] k.kind = "Placemark" ->
            IF k.geometry # None
            THEN Try(Geometry_try_from(k.geometry[1]), LAMBDA r : Ok(<<r.val>>, 0))
            ELSE Ok(<<>>, 0)
      [] OTHER -> Ok(<<>>, 0)

quick_collection(k) ==
    Try(process_kml(k), LAMBDA r : Ok([g |-> "GeometryCollection", gs |-> r.val], 0))

-----------------------------------------------------------------------------
(* The Token Source: an XML document and the events quick_xml reports for it *)

\* a node of the document: an element with children, a self-closing element,
\* character data or a comment
XNode(name, attrs, kids) ==
    [k |-> "node", name |-> name, attrs |-> attrs, kids |-> kids, text |-> <<>>]
XEmpty(name, attrs) ==
    [k |-> "empty", name |-> name, attrs |-> attrs, kids |-> <<>>, text |-> <<>>]
XText(s) == [k |-> "text", name |-> "", attrs |-> <<>>, kids |-> <<>>, text |-> s]
XComment == [k |-> "comment", name |-> "", attrs |-> <<>>, kids |-> <<>>, text |-> <<>>]

\* quick_xml::Reader::read_event_into over the whole document: an open tag,
\* the events of the children and the close tag; one event for a
\* self-closing element
RECURSIVE RawEvents(_)
RawEvents(forest) ==
    IF forest = <<>> THEN <<>>
    ELSE LET n == Head(forest)
             evs == CASE n.k = "node" ->
                            <<Start(n.name, n.attrs)>> \o RawEvents(n.kids) \o <<End(n.name)>>
                      [] n.k = "empty" -> <<Empty(n.name, n.attrs)>>
                      [] n.k = "text" -> <<Text(n.text)>>
                      [] OTHER -> <<Comment>>
         IN  evs \o RawEvents(Tail(forest))

\* with config.trim_text(true)
Tokens(forest) == Tokenize(RawEvents(forest))

-----------------------------------------------------------------------------
(* The documents of the Token Source *)

CA == <<"1", ",", "1">>
CB == <<"2", ",", "2">>
CAB == CA \o <<" ">> \o CB

XLeaf(name, s) == XNode(name, <<>>, <<XText(s)>>)
XPoint(s) == XNode("Point", <<>>, <<XLeaf("coordinates", s)>>)
XLineString(s) == XNode("LineString", <<>>, <<XLeaf("coordinates", s)>>)
XLinearRing(s) == XNode("LinearRing", <<>>, <<XLeaf("coordinates", s)>>)
XName == XLeaf("name", <<"n">>)
XStyleUrl == XLeaf("styleUrl", <<"#s">>)
XExt == XNode("ext", <<>>, <<XText(<<"t">>)>>)

\* children of a Placemark
MarkKids == {XName, XPoint(CA), XLineString(CAB)}
Placemarks == {XNode("Placemark", <<>>, ks) : ks \in SeqsUpTo(MarkKids, MaxKids)}

\* children of a kml, Document or Folder element
ContainerKids ==
    {XName, XStyleUrl, XPoint(CA), XNode("Placemark", <<>>, <<XPoint(CB)>>),
     XNode("Folder", <<>>, <<>>)}
Containers ==
    {XNode(c, <<>>, ks) : c \in {"kml", "Document", "Folder"},
                          ks \in SeqsUpTo(ContainerKids, MaxKids)}

XSchemaData ==
    XNode("SchemaData", <<>>, <<XNode("SimpleData", <<<<"name", "a">>>>, <<XText(<<"v">>)>>)>>)

TopItems ==
    Containers \cup Placemarks
        \cup {XPoint(CA), XLineString(CAB), XLinearRing(CAB), XSchemaData, XExt}
Followers == {XPoint(CB), XNode("Folder", <<>>, <<XName>>)}

\* no element, one element, or one element and a sibling after it
Docs == {<<>>} \cup {<<t>> : t \in TopItems}
            \cup {<<t, s>> : t \in TopItems, s \in Followers}

\* the input ends where the document ends, or (for a single element) earlier
Inputs(d) ==
    LET evs == Tokens(d)
    IN  {evs} \cup (IF Len(d) = 1 THEN {SubSeq(evs, 1, c) : c \in 1..(Len(evs) - 1)}
                    ELSE {})

-----------------------------------------------------------------------------
(* The state machine: a caller drives one KmlReader, then writes or flattens *)

NoTree == [kind |-> "None"]
NoResult == [st |-> "none", val |-> [e |-> "", lit |-> <<>>], pos |-> 0]

Fresh ==
    /\ pos = 1
    /\ phase = "start"
    /\ calls = <<>>
    /\ tree = NoTree
    /\ written = <<>>
    /\ reread = NoResult
    /\ coll = NoResult
    /\ ty = "None"
    /\ hist = <<>>
    /\ archive = <<>>
    /\ opened = NoResult

Init ==
    /\ doc \in Docs
    /\ events \in Inputs(doc)
    /\ Fresh

\* KmlReader::read is entered
Call ==
    /\ phase \in {"start", "read"}
    /\ Len(calls) < MaxCalls
    /\ phase' = "reading"
    /\ UNCHANGED <<doc, events, pos, calls, tree, written, reread, coll, ty, hist, archive, opened>>

\* the outcome of a read() call entered at the reader's cursor
Outcome == read(events, pos)

\* KmlReader::read returns; a call whose loop never ends has no such step
Return ==
    /\ phase = "reading"
    /\ LET r == Outcome
       IN  /\ r.st # "hang"
           /\ calls' = Append(calls, r)
           /\ pos' = r.pos
           /\ tree' = IF r.st = "ok" THEN r.val ELSE NoTree
    /\ phase' = "read"
    /\ UNCHANGED <<doc, events, written, reread, coll, ty, hist, archive, opened>>

\* KmlWriter::write(&tree)
DoWrite ==
    /\ phase = "read"
    /\ tree # NoTree
    /\ written' = write_kml(tree)
    /\ phase' = "written"
    /\ UNCHANGED <<doc, events, pos, calls, tree, reread, coll, ty, hist, archive, opened>>

\* the written text is parsed by a fresh reader
DoReread ==
    /\ phase = "written"
    /\ reread' = read(Tokenize(written), 1)
    /\ phase' = "reread"
    /\ UNCHANGED <<doc, events, pos, calls, tree, written, coll, ty, hist, archive, opened>>

\* quick_collection(tree)
DoFlatten ==
    /\ phase = "read"
    /\ tree # NoTree
    /\ coll' = quick_collection(tree)
    /\ phase' = "flat"
    /\ UNCHANGED <<doc, events, pos, calls, tree, written, reread, ty, hist, archive, opened>>

Next == Call \/ Return \/ DoWrite \/ DoReread \/ DoFlatten

Spec == Init /\ [][Next]_vars

-----------------------------------------------------------------------------
(* Documents of extended data and resource maps *)

XSimpleData(attrs) == XNode("SimpleData", attrs, <<XText(<<"v">>)>>)
XSimpleArrayData(attrs) == XNode("SimpleArrayData", attrs, <<XLeaf("value", <<"v">>)>>)
Named == <<<<"name", "a">>>>

DataKids == {XSimpleData(Named), XSimpleData(<<>>),
             XSimpleArrayData(Named), XSimpleArrayData(<<>>)}
SchemaDatas == {XNode("SchemaData", <<>>, ks) : ks \in SeqsUpTo(DataKids, MaxKids)}

XAlias == XNode("Alias", <<>>, <<XLeaf("targetHref", <<"t">>), XLeaf("sourceHref", <<"s">>)>>)
\* <Alias><targetHref><!-- --> t</targetHref></Alias>: read_str meets the comment
XAliasComment == XNode("Alias", <<>>, <<XNode("targetHref", <<>>, <<XComment, XText(<<"t">>)>>)>>)
ResourceMaps ==
    {XNode("ResourceMap", <<>>, ks) : ks \in SeqsUpTo({XAlias, XAliasComment}, MaxKids)}

\* <SimpleArrayData name="a"><value>v</value><value></value>..</SimpleArrayData>
XValue(s) == XNode("value", <<>>, IF s = <<>> THEN <<>> ELSE <<XText(s)>>)
ArrayItems ==
    {XNode("SimpleArrayData", at, vs) :
         at \in {Named, <<>>, <<<<"unit", "m">>, <<"name", "b">>>>},
         vs \in SeqsUpTo({XValue(<<"v">>), XValue(<<"w">>), XValue(<<>>)}, MaxKids)}
    \cup {XNode("SimpleData", <<<<"unit", "m">>, <<"name", "b">>>>, <<XText(<<"w">>)>>)}

DataItems ==
    SchemaDatas \cup ResourceMaps \cup DataKids \cup {XAlias, XAliasComment} \cup ArrayItems
        \cup {XNode("Document", <<>>, <<x>>) : x \in SchemaDatas \cup ResourceMaps}

DataDocs == {<<t>> : t \in DataItems}

InitData ==
    /\ doc \in DataDocs
    /\ events \in Inputs(doc)
    /\ Fresh

SpecData == InitData /\ [][Next]_vars

-----------------------------------------------------------------------------
(* Documents of one Polygon element *)

RingA == XLinearRing(CAB)
RingB == XLinearRing(CB)
RingSeqs == {<<>>, <<RingA>>, <<RingB>>, <<RingA, RingB>>}

\* a boundary group with its rings, or a comment between the groups
PolygonKids ==
    {XNode(tag, <<>>, rs) : tag \in {"outerBoundaryIs", "innerBoundaryIs"}, rs \in RingSeqs}
        \cup {XComment}

PolyDocs == {<<XNode("Polygon", <<>>, ks)>> : ks \in SeqsUpTo(PolygonKids, MaxGroups)}

InitPoly ==
    /\ doc \in PolyDocs
    /\ events = Tokens(doc)
    /\ Fresh

SpecPoly == InitPoly /\ [][Next]_vars

-----------------------------------------------------------------------------
(* Documents of one unrecognized element *)

A1 == <<<<"a", "1">>>>

\* text, a self-closing child, a child with attributes and text, a child named
\* like its parent, a child with a self-closing child of its own
ElemKids ==
    {XText(<<"t">>), XEmpty("bar", A1), XNode("bar", A1, <<XText(<<"u">>)>>),
     XNode("foo", <<>>, <<>>), XNode("bar", <<>>, <<XEmpty("baz", <<>>)>>)}

ElemDocs == {<<XNode("foo", at, ks)>> : at \in {<<>>, A1}, ks \in SeqsUpTo(ElemKids, MaxKids)}

InitElem ==
    /\ doc \in ElemDocs
    /\ events \in Inputs(doc)
    /\ Fresh

SpecElem == InitElem /\ [][Next]_vars

-----------------------------------------------------------------------------
(* Trees a caller builds and hands to the writer or to quick_collection *)

MkCoords(s) == coords_from_str(s).val
MkPoint(s) ==
    [kind |-> "Point", coord |-> Head(MkCoords(s)), altitude_mode |-> AltitudeMode_default,
     extrude |-> FALSE, attrs |-> NoAttrs]
MkLineString(s) ==
    [kind |-> "LineString", coords |-> MkCoords(s), altitude_mode |-> AltitudeMode_default,
     extrude |-> FALSE, tessellate |-> FALSE, attrs |-> NoAttrs]
MkElement(name) ==
    [kind |-> "Element", name |-> name, attrs |-> NoAttrs, content |-> None,
     children |-> <<>>]
MkMultiGeometry(gs) == [kind |-> "MultiGeometry", geometries |-> gs, attrs |-> NoAttrs]
MkPlacemark(g) == [Placemark_init(NoAttrs) EXCEPT !.geometry = g]
MkStyle ==
    [kind |-> "Style", id |-> Some("s"), balloon |-> None, icon |-> None, label |-> None,
     line |-> None, poly |-> None, list |-> None, attrs |-> NoAttrs]
MkContainer(kind, elements) ==
    IF kind = "Folder" THEN [Folder_init(NoAttrs) EXCEPT !.elements = elements]
    ELSE IF kind = "Document"
    THEN [kind |-> "Document", attrs |-> NoAttrs, elements |-> elements]
    ELSE KmlDocument_of(elements)

\* Geometry::Element, the kind of geometry geo_types has no equivalent for
Placeholder == MkElement("g")

MultiGeometries ==
    {MkMultiGeometry(gs) : gs \in {<<MkPoint(CA), MkLineString(CAB)>>,
                                   <<MkLineString(CAB), Placeholder>>}}
Geometries == {MkPoint(CA), MkLineString(CAB), Placeholder} \cup MultiGeometries

Leaves ==
    {MkPlacemark(None)} \cup {MkPlacemark(Some(g)) : g \in Geometries}
        \cup {MkPoint(CB), MkStyle, MkElement("ext")} \cup MultiGeometries
Nested ==
    {MkContainer("Folder", <<l>>) :
        l \in {MkPlacemark(Some(MkPoint(CB))), MkPlacemark(Some(Placeholder))}}

Trees ==
    Leaves \cup {MkContainer(kind, es) : kind \in {"KmlDocument", "Document", "Folder"},
                                         es \in SeqsUpTo(Leaves \cup Nested, MaxKids)}

InitTree ==
    /\ doc = <<>>
    /\ events = <<>>
    /\ pos = 1
    /\ phase = "read"
    /\ calls = <<>>
    /\ tree \in Trees
    /\ written = <<>>
    /\ reread = NoResult
    /\ coll = NoResult
    /\ ty = "None"
    /\ hist = <<>>
    /\ archive = <<>>
    /\ opened = NoResult

NextTree == DoWrite \/ DoReread \/ DoFlatten

SpecTree == InitTree /\ [][NextTree]_vars

-----------------------------------------------------------------------------
(* Documents of scalar fields: one record element holding one field child *)

\* the element names of the records and of their scalar children, with the
\* grammar each child is read by
FieldTable ==
    {<<g, "altitudeMode", "AltitudeMode">> : g \in {"Point", "LineString", "LinearRing", "Polygon"}}
    \cup {<<s, "colorMode", "ColorMode">> :
              s \in {"IconStyle", "LabelStyle", "LineStyle", "PolyStyle"}}
    \cup {<<l, f[1], f[2]>> :
              l \in {"Link", "Icon"},
              f \in {<<"refreshMode", "RefreshMode">>, <<"viewRefreshMode", "ViewRefreshMode">>,
                     <<"refreshInterval", "Float">>, <<"viewRefreshTime", "Float">>,
                     <<"viewBoundScale", "Float">>}}
    \cup {<<"ListStyle", "listItemType", "ListItemType">>,
          <<"ListStyle", "maxSnippetLines", "Count">>}
    \cup {<<g, "extrude", "Flag">> : g \in {"Point", "LineString", "LinearRing", "Polygon"}}
    \cup {<<g, "tessellate", "Flag">> : g \in {"LineString", "LinearRing", "Polygon"}}
    \cup {<<"PolyStyle", "fill", "Switch">>, <<"PolyStyle", "outline", "Switch">>}
    \cup {<<"Scale", a, "Float">> : a \in {"x", "y", "z"}}
    \cup {<<"IconStyle", "scale", "Float">>, <<"IconStyle", "heading", "Float">>,
          <<"LabelStyle", "scale", "Float">>, <<"LineStyle", "width", "Float">>}

\* the literals a field child holds in the documents of the model
FieldLits(grammar) ==
    CASE grammar = "AltitudeMode" -> {"clampToGround", "relativeToGround", "absolute", "bogus"}
      [] grammar = "ColorMode" -> {"normal", "random", "bogus"}
      [] grammar = "RefreshMode" -> {"onChange", "onInterval", "onExpire", "bogus"}
      [] grammar = "ViewRefreshMode" -> {"never", "onRequest", "onStop", "onRegion", "bogus"}
      [] grammar = "ListItemType" ->
            {"check", "checkOffOnly", "checkHideChildren", "radioFolder", "bogus"}
      [] grammar = "Flag" -> {"1", "0", "2", "true"}
      [] grammar = "Switch" -> {"1", "0", "true", "false", "2", "yes"}
      [] grammar = "Float" -> {"0", "1", "4", "1.0", "abc"}
      [] grammar = "Count" -> {"2", "3", "-1", "abc"}

\* what a record element needs besides the field child to be complete
FieldBody(rec) ==
    CASE rec \in {"Point", "LineString", "LinearRing"} -> <<XLeaf("coordinates", CAB)>>
      [] rec = "Polygon" -> <<XNode("outerBoundaryIs", <<>>, <<RingA>>)>>
      [] OTHER -> <<>>

XField(rec, kids) == XNode(rec, <<>>, kids \o FieldBody(rec))

SubStyles == {"IconStyle", "LabelStyle", "LineStyle", "PolyStyle", "ListStyle"}

\* <IconStyle><hotSpot x=".." y=".." xunits=".." yunits=".."></hotSpot></IconStyle>
HotSpotAttrs ==
    {<<<<"x", "1">>, <<"y", "2">>>>,
     <<<<"xunits", "bogus">>>>,
     <<<<"x", "abc">>, <<"y", "2">>>>}
    \cup {<<<<"x", "1">>, <<"y", "2">>, <<"xunits", u>>, <<"yunits", "fraction">>>> :
              u \in {"fraction", "pixels", "insetPixels", "bogus"}}
    \cup {<<<<"x", "1">>, <<"y", "2">>, <<"yunits", u>>>> : u \in {"pixels", "bogus"}}

FieldItems ==
    UNION {{XField(t[1], <<XLeaf(t[2], <<l>>)>>) : l \in FieldLits(t[3])} : t \in FieldTable}
BareItems == {XField(rec, <<>>) : rec \in {t[1] : t \in FieldTable}}
HotSpotItems == {XNode("IconStyle", <<>>, <<XNode("hotSpot", a, <<>>)>>) : a \in HotSpotAttrs}
StyledItems ==
    {XNode("Style", <<>>, <<x>>) :
         x \in {y \in FieldItems \cup BareItems \cup HotSpotItems : y.name \in SubStyles}}

FieldDocs == {<<x>> : x \in FieldItems \cup BareItems \cup HotSpotItems \cup StyledItems}

InitField ==
    /\ doc \in FieldDocs
    /\ events = Tokens(doc)
    /\ Fresh

SpecField == InitField /\ [][Next]_vars

-----------------------------------------------------------------------------
(* The string grammars of the value types, by type name *)

ClosedTypes ==
    {"AltitudeMode", "ColorMode", "RefreshMode", "ViewRefreshMode", "Units", "ListItemType"}

\* <T as FromStr>::from_str
from_str(t, s) ==
    CASE t = "AltitudeMode" -> AltitudeMode_from_str(s)
      [] t = "ColorMode" -> ColorMode_from_str(s)
      [] t = "RefreshMode" -> RefreshMode_from_str(s)
      [] t = "ViewRefreshMode" -> ViewRefreshMode_from_str(s)
      [] t = "Units" -> Units_from_str(s)
      [] t = "ListItemType" -> ListItemType_from_str(s)
      [] t = "Coord" -> Coord_from_str(s)
      [] t = "Coords" -> coords_from_str(s)

\* <T as Display>::to_string; a coordinate sequence is formatted the way
\* write_geom_props does it
to_string(t, v) ==
    CASE t = "AltitudeMode" -> AltitudeMode_to_string(v)
      [] t = "ColorMode" -> ColorMode_to_string(v)
      [] t = "RefreshMode" -> RefreshMode_to_string(v)
      [] t = "ViewRefreshMode" -> ViewRefreshMode_to_string(v)
      [] t = "Units" -> Units_to_string(v)
      [] t = "ListItemType" -> ListItemType_to_string(v)
      [] t = "Coord" -> Coord_to_string(v)
      [] t = "Coords" -> JoinLines([i \in 1..Len(v) |-> Coord_to_string(v[i])])

-----------------------------------------------------------------------------
(* Documents of geometries with and without coordinates, in every place *)

GeomTags == {"Point", "LineString", "LinearRing"}

\* <Point></Point>, <Point><coordinates></coordinates></Point>,
\* <Point><extrude>1</extrude></Point> and a Point with coordinates
GeomBodies ==
    {<<>>, <<XNode("coordinates", <<>>, <<>>)>>, <<XLeaf("extrude", <<"1">>)>>,
     <<XLeaf("coordinates", CAB)>>}
GeomItems == {XNode(tag, <<>>, body) : tag \in GeomTags, body \in GeomBodies}

\* the places a geometry occurs in
GeomPlaces(g) ==
    {g,
     XNode("Placemark", <<>>, <<XName, g>>),
     XNode("MultiGeometry", <<>>, <<XPoint(CA), g>>),
     XNode("Folder", <<>>, <<g>>),
     XNode("Folder", <<>>, <<XNode("Placemark", <<>>, <<g>>)>>),
     XNode("Document", <<>>, <<g>>),
     XNode("Document", <<>>, <<XNode("Placemark", <<>>, <<g>>)>>),
     XNode("kml", <<>>, <<XNode("Placemark", <<>>, <<g>>)>>)}
    \cup (IF g.name = "LinearRing"
          THEN {XNode("Polygon", <<>>, <<XNode("outerBoundaryIs", <<>>, <<g>>)>>),
                XNode("Polygon", <<>>, <<XNode("outerBoundaryIs", <<>>, <<RingA>>),
                                         XNode("innerBoundaryIs", <<>>, <<g>>)>>)}
          ELSE {})

GeomDocs == {<<x>> : x \in UNION {GeomPlaces(g) : g \in GeomItems}}

InitGeom ==
    /\ doc \in GeomDocs
    /\ events = Tokens(doc)
    /\ Fresh

SpecGeom == InitGeom /\ [][Next]_vars

-----------------------------------------------------------------------------
(* A value type used on its own: a caller parses a text with from_str or   *)
(* formats a value it built with to_string, and feeds each result back     *)

ValueTypes == ClosedTypes \cup {"Coord", "Coords"}

\* the variants of the closed-set types
Variants(t) ==
    CASE t = "AltitudeMode" -> {"ClampToGround", "RelativeToGround", "Absolute"}
      [] t = "ColorMode" -> {"Normal", "Random"}
      [] t = "RefreshMode" -> {"OnChange", "OnInterval", "OnExpire"}
      [] t = "ViewRefreshMode" -> {"Never", "OnRequest", "OnStop", "OnRegion"}
      [] t = "Units" -> {"Fraction", "Pixels", "InsetPixels"}
      [] t = "ListItemType" -> {"Check", "CheckOffOnly", "CheckHideChildren", "RadioFolder"}

\* the words a caller hands to from_str of a closed-set type: the literals of
\* every type, their variant names, other spellings, padding and no text
Words ==
    UNION {{to_string(t, v) : v \in Variants(t)} : t \in ClosedTypes}
    \cup UNION {{<<v>> : v \in Variants(t)} : t \in ClosedTypes}
    \cup {<<"bogus">>, <<"ABSOLUTE">>, <<"normal", " ">>, <<" ", "check">>, <<>>}

\* the coordinate tuples a caller builds
CoordValues == {MkCoord(x, 2, z) : x \in {1, 0 - 1}, z \in {None, Some(0)}}

CoordSeqs == UNION {[1..n -> CoordValues] : n \in 1..MaxCoords}

\* the whitespace runs between the tuples of a coordinate text
WsRuns == {<<"\n">>, <<" ">>, <<" ", "\n">>, <<"\n", "\n">>}

RECURSIVE JoinRuns(_, _)
JoinRuns(ss, ws) ==
    IF ss = <<>> THEN <<>>
    ELSE IF Len(ss) = 1 THEN Head(ss)
    ELSE Head(ss) \o ws \o JoinRuns(Tail(ss), ws)

CoordTexts ==
    {<<x, ",", y>> : x \in NumLexemes, y \in NumLexemes}
    \cup {<<x, ",", y, ",", z>> : x \in NumLexemes, y \in {"2", "1.0"}, z \in NumLexemes}
    \cup {<<" ", x, ",", "2", "\n">> : x \in NumLexemes}
    \cup {<<>>, <<"1">>, <<"1", ",">>, <<"a", ",", "1">>, <<"1", ",", "2", ",", "z">>,
          <<"1", ",", " ", "2">>}

CoordsTexts ==
    {JoinRuns([i \in 1..Len(cs) |-> Coord_to_string(cs[i])], ws) :
        cs \in CoordSeqs, ws \in WsRuns}
    \cup {<<"\n">> \o Coord_to_string(c) \o <<" ">> : c \in CoordValues}
    \cup {<<>>, <<"1", ",", "2", " ", "1">>, <<"1", ",", "2", " ", ",", "1">>}

Texts(t) ==
    CASE t \in ClosedTypes -> Words
      [] t = "Coord" -> CoordTexts
      [] t = "Coords" -> CoordsTexts

Values(t) ==
    CASE t \in ClosedTypes -> Variants(t)
      [] t = "Coord" -> CoordValues
      [] t = "Coords" -> CoordSeqs

\* an entry of hist: a text, or the result of from_str (a built value is Ok)
Txt(s) == [k |-> "text", s |-> s, r |-> NoResult]
Val(r) == [k |-> "value", s |-> <<>>, r |-> r]

InitValue ==
    /\ doc = <<>>
    /\ events = <<>>
    /\ pos = 1
    /\ phase = "value"
    /\ calls = <<>>
    /\ tree = NoTree
    /\ written = <<>>
    /\ reread = NoResult
    /\ coll = NoResult
    /\ ty \in ValueTypes
    /\ hist \in {<<Txt(s)>> : s \in Texts(ty)} \cup {<<Val(Ok(v, 0))>> : v \in Values(ty)}
    /\ archive = <<>>
    /\ opened = NoResult

\* T::from_str(text)
DoFromStr ==
    /\ phase = "value"
    /\ Len(hist) < MaxHist
    /\ hist[Len(hist)].k = "text"
    /\ hist' = Append(hist, Val(from_str(ty, hist[Len(hist)].s)))
    /\ UNCHANGED <<doc, events, pos, phase, calls, tree, written, reread, coll, ty, archive, opened>>

\* value.to_string()
DoToString ==
    /\ phase = "value"
    /\ Len(hist) < MaxHist
    /\ hist[Len(hist)].k = "value"
    /\ hist[Len(hist)].r.st = "ok"
    /\ hist' = Append(hist, Txt(to_string(ty, hist[Len(hist)].r.val)))
    /\ UNCHANGED <<doc, events, pos, phase, calls, tree, written, reread, coll, ty, archive, opened>>

NextValue == DoFromStr \/ DoToString

SpecValue == InitValue /\ [][NextValue]_vars

-----------------------------------------------------------------------------
(* Records a caller builds and hands to the Writer: styles and extended-data *)
(* entries with an identity field and an attribute mapping, records with     *)
(* boolean flags, and records with optional and numeric fields               *)

\* Style::default() and the defaults of the sub-style records
Style_default(kind) ==
    CASE kind = "Style" ->
            [kind |-> "Style", id |-> None, balloon |-> None, icon |-> None, label |-> None,
             line |-> None, poly |-> None, list |-> None, attrs |-> NoAttrs]
      [] kind = "IconStyle" ->
            [kind |-> "IconStyle", id |-> None, scale |-> 1, heading |-> 0,
             hot_spot |-> None, icon |-> [href |-> <<>>, attrs |-> NoAttrs],
             color |-> <<"ffffffff">>, color_mode |-> "Normal", attrs |-> NoAttrs]
      [] kind = "LabelStyle" ->
            [kind |-> "LabelStyle", id |-> None, color |-> <<"ffffffff">>,
             color_mode |-> "Normal", scale |-> 1, attrs |-> NoAttrs]
      [] kind = "LineStyle" ->
            [kind |-> "LineStyle", id |-> None, color |-> <<"ffffffff">>,
             color_mode |-> "Normal", width |-> 1, attrs |-> NoAttrs]
      [] kind = "PolyStyle" ->
            [kind |-> "PolyStyle", id |-> None, color |-> <<"ffffffff">>,
             color_mode |-> "Normal", fill |-> TRUE, outline |-> TRUE, attrs |-> NoAttrs]
      [] kind = "ListStyle" ->
            [kind |-> "ListStyle", id |-> None, bg_color |-> <<"ffffffff">>,
             max_snippet_lines |-> 2, list_item_type |-> "Check", attrs |-> NoAttrs]

StyleKinds == {"Style", "IconStyle", "LabelStyle", "LineStyle", "PolyStyle", "ListStyle"}

\* the attribute mappings of a record whose identity attribute is key
RecAttrs(key) ==
    {NoAttrs, [k \in {"x"} |-> "1"], [k \in {key} |-> "t"],
     [k \in {key, "x"} |-> IF k = key THEN "t" ELSE "1"]}

IdRecords ==
    {[Style_default(kind) EXCEPT !.id = id, !.attrs = a] :
        kind \in StyleKinds, id \in {None, Some("s")}, a \in RecAttrs("id")}
    \cup {[Style_default("Style") EXCEPT !.id = Some("s"),
              !.line = Some([Style_default("LineStyle") EXCEPT !.id = Some("l"), !.attrs = a])] :
            a \in RecAttrs("id")}

NameRecords ==
    {[kind |-> "SimpleData", name |-> "n", value |-> <<"v">>, attrs |-> a] :
        a \in RecAttrs("name")}
    \cup {[kind |-> "SimpleArrayData", name |-> "n", values |-> <<<<"v">>>>, attrs |-> a] :
            a \in RecAttrs("name")}

FlagRecords ==
    {[Style_default("PolyStyle") EXCEPT !.fill = f, !.outline = o] :
        f \in BOOLEAN, o \in BOOLEAN}
    \cup {[Style_default("Style") EXCEPT
              !.poly = Some([Style_default("PolyStyle") EXCEPT !.fill = f])] : f \in BOOLEAN}
    \cup {[MkPoint(CA) EXCEPT !.extrude = e] : e \in BOOLEAN}
    \cup {[MkLineString(CAB) EXCEPT !.kind = k, !.extrude = e, !.tessellate = t] :
            k \in {"LineString", "LinearRing"}, e \in BOOLEAN, t \in BOOLEAN}
    \cup {[Polygon_init(NoAttrs) EXCEPT
              !.outer = [MkLineString(CAB) EXCEPT !.kind = "LinearRing"],
              !.extrude = e, !.tessellate = t] : e \in BOOLEAN, t \in BOOLEAN}

\* Link and Icon values: each optional field absent or set, each numeric
\* field at its default or off it
LinkRecords ==
    {[Link_default(kind, NoAttrs) EXCEPT
          !.href = h, !.refresh_mode = rm, !.view_refresh_mode = vm,
          !.refresh_interval = ri, !.view_bound_scale = vs] :
        kind \in {"Link", "LinkTypeIcon"}, h \in {None, Some(<<"h">>)},
        rm \in {None, Some("OnInterval")}, vm \in {None, Some("OnStop")},
        ri \in {4, 2}, vs \in {1, 2}}
    \cup {[Link_default("Link", NoAttrs) EXCEPT !.view_format = vf, !.http_query = q,
              !.view_refresh_time = vt] :
            vf \in {None, Some(<<"f">>)}, q \in {None, Some(<<"q">>)}, vt \in {4, 0}}

OptionalRecords ==
    LinkRecords
    \cup {[Placemark_init(NoAttrs) EXCEPT !.name = n, !.description = d, !.geometry = g] :
            n \in {None, Some(<<"a">>)}, d \in {None, Some(<<"d">>)},
            g \in {None, Some(MkPoint(CA))}}
    \cup {[Folder_init(NoAttrs) EXCEPT !.name = n] : n \in {None, Some(<<"a">>)}}
    \cup {[kind |-> "Alias", target_href |-> t, source_href |-> s, attrs |-> NoAttrs] :
            t \in {None, Some(<<"t">>)}, s \in {None, Some(<<"s">>)}}
    \cup {[Style_default("IconStyle") EXCEPT !.hot_spot = hs, !.scale = sc,
              !.icon = [href |-> <<"h">>, attrs |-> NoAttrs]] :
            hs \in {None, Some([x |-> 1, y |-> 2, xunits |-> "Pixels",
                                yunits |-> "Fraction"])},
            sc \in {1, 2}}
    \cup {[Style_default("LabelStyle") EXCEPT !.scale = sc] : sc \in {1, 2}}

Records == IdRecords \cup NameRecords \cup FlagRecords \cup OptionalRecords

InitRecord ==
    /\ doc = <<>>
    /\ events = <<>>
    /\ pos = 1
    /\ phase = "read"
    /\ calls = <<>>
    /\ tree \in Records
    /\ written = <<>>
    /\ reread = NoResult
    /\ coll = NoResult
    /\ ty = "None"
    /\ hist = <<>>
    /\ archive = <<>>
    /\ opened = NoResult

SpecRecord == InitRecord /\ [][NextTree]_vars

-----------------------------------------------------------------------------
(* Documents of open-tag attributes: one element of each kind the dispatcher *)
(* names, alone, inside a Style or inside a container, the kml root included *)

AttrTags ==
    {"kml", "Document", "Folder", "Placemark", "Scale", "Point", "LineString",
     "LinearRing", "Polygon", "MultiGeometry", "Style", "IconStyle", "LabelStyle",
     "LineStyle", "PolyStyle", "ListStyle", "Link", "Icon", "ResourceMap", "Alias",
     "SchemaData", "SimpleData", "SimpleArrayData", "ext"}

\* the attribute lists of an open tag
AttrLists ==
    {<<>>, <<<<"x", "1">>>>, <<<<"id", "s">>>>, <<<<"name", "n">>>>,
     <<<<"id", "s">>, <<"x", "1">>>>, <<<<"x", "1">>, <<"name", "n">>>>,
     <<<<"xmlns", "k">>, <<"id", "s">>, <<"name", "n">>>>}

XTagged(tag, a) == XNode(tag, a, FieldBody(tag))

AttrItems == {XTagged(tag, a) : tag \in AttrTags, a \in AttrLists}

AttrDocs ==
    {<<x>> : x \in AttrItems}
    \cup {<<XNode("Style", a, <<XTagged(sub, b)>>)>> :
            sub \in SubStyles, a \in {<<>>, <<<<"id", "s">>>>},
            b \in {<<<<"id", "l">>, <<"x", "1">>>>, <<<<"x", "1">>>>}}
    \cup {<<XNode(top, a, <<XTagged(tag, b)>>)>> :
            top \in {"kml", "Document", "Folder"}, tag \in {"Point", "Style", "SimpleData"},
            a \in {<<>>, <<<<"xmlns", "k">>>>},
            b \in {<<<<"name", "n">>, <<"id", "s">>>>}}

InitAttr ==
    /\ doc \in AttrDocs
    /\ events = Tokens(doc)
    /\ Fresh

SpecAttr == InitAttr /\ [][Next]_vars

-----------------------------------------------------------------------------
(* KMZ (src/src/kmz_reader.rs): the archive entry fed to the Reader *)

\* str::to_ascii_lowercase on one lexeme of an entry name
LowerLexeme(l) ==
    CASE l \in {".kml", ".KML", ".Kml"} -> ".kml"
      [] l \in {"doc", "DOC"} -> "doc"
      [] OTHER -> l

to_ascii_lowercase(name) == [i \in 1..Len(name) |-> LowerLexeme(name[i])]

\* str::ends_with(".kml")
ends_with_kml(name) == name # <<>> /\ name[Len(name)] = ".kml"

\* ZipArchive::by_index: an entry the library cannot open (encrypted, or packed
\* with a method it does not support) is an error
by_index(ar, i) ==
    IF ar[i].openable THEN Ok(ar[i], i) ELSE Err("InvalidInput", <<"by_index">>, i)

\* the loop of from_kmz_path from index i on: Ok holds the bytes given to
\* KmlReader::from_reader and the index of the entry
RECURSIVE from_kmz_path_loop(_, _)
from_kmz_path_loop(ar, i) ==
    IF i > Len(ar) THEN Err("InvalidInput", <<"Archive contains no elements">>, i)
    ELSE LET kml_file == by_index(ar, i)
         IN  IF kml_file.st # "ok" THEN kml_file
             ELSE IF ~ends_with_kml(to_ascii_lowercase(kml_file.val.name))
             THEN from_kmz_path_loop(ar, i + 1)
             ELSE Ok(kml_file.val.bytes, i)

from_kmz_path(ar) == from_kmz_path_loop(ar, 1)

\* the entries of the archives: documents under names that end in the
\* extension in some case, and other files
KmlNames == {<<"doc", ".kml">>, <<"DOC", ".KML">>, <<"a", ".txt", ".Kml">>}
OtherNames == {<<"a", ".txt">>, <<"doc", ".kml", ".bak">>, <<"kml">>}

Entries ==
    {[name |-> n, openable |-> o, bytes |-> <<XPoint(c)>>] :
        n \in {<<"doc", ".kml">>, <<"DOC", ".KML">>}, o \in BOOLEAN, c \in {CA, CB}}
    \cup {[name |-> <<"a", ".txt", ".Kml">>, openable |-> TRUE, bytes |-> <<XPoint(CB)>>]}
    \cup {[name |-> n, openable |-> o, bytes |-> <<XText(<<"junk">>)>>] :
            n \in OtherNames, o \in BOOLEAN}

InitKmz ==
    /\ doc = <<>>
    /\ events = <<>>
    /\ pos = 1
    /\ phase = "closed"
    /\ calls = <<>>
    /\ tree = NoTree
    /\ written = <<>>
    /\ reread = NoResult
    /\ coll = NoResult
    /\ ty = "None"
    /\ hist = <<>>
    /\ archive \in SeqsUpTo(Entries, MaxEntries)
    /\ opened = NoResult

\* KmlReader::from_kmz_path(path)
FromKmzPath ==
    /\ phase = "closed"
    /\ opened' = from_kmz_path(archive)
    /\ IF opened'.st = "ok"
       THEN /\ doc' = opened'.val
            /\ events' = Tokens(opened'.val)
            /\ phase' = "start"
       ELSE /\ phase' = "failed"
            /\ UNCHANGED <<doc, events>>
    /\ UNCHANGED <<pos, calls, tree, written, reread, coll, ty, hist, archive>>

NextKmz == FromKmzPath \/ Call \/ Return

SpecKmz == InitKmz /\ [][NextKmz]_vars

-----------------------------------------------------------------------------
(* Documents of mixed content: one element of each kind holding a recognized *)
(* child, with text, a comment, a self-closing element or an unrecognized    *)
(* element before or after that child; alone, and inside a Document followed *)
(* by a Point                                                                *)

MixedTags ==
    {"kml", "Document", "Folder", "Placemark", "Scale", "Point", "LineString",
     "LinearRing", "Polygon", "MultiGeometry", "Style", "IconStyle", "LabelStyle",
     "LineStyle", "PolyStyle", "ListStyle", "Link", "Icon", "ResourceMap", "Alias",
     "SchemaData", "SimpleArrayData", "ext"}

\* a child the element's sub-parser has an arm for, holding a value other than
\* the default, and what the element needs besides it
KnownKids(tag) ==
    CASE tag \in {"kml", "Document", "MultiGeometry"} -> <<XPoint(CA)>>
      [] tag \in {"Folder", "Placemark"} -> <<XLeaf("name", <<"a">>)>>
      [] tag = "Scale" -> <<XLeaf("x", <<"4">>)>>
      [] tag = "Point" -> <<XLeaf("extrude", <<"1">>)>> \o FieldBody(tag)
      [] tag \in {"LineString", "LinearRing", "Polygon"} ->
            <<XLeaf("tessellate", <<"1">>)>> \o FieldBody(tag)
      [] tag = "Style" -> <<XNode("LineStyle", <<>>, <<XLeaf("width", <<"4">>)>>)>>
      [] tag \in {"IconStyle", "LabelStyle"} -> <<XLeaf("scale", <<"4">>)>>
      [] tag = "LineStyle" -> <<XLeaf("width", <<"4">>)>>
      [] tag = "PolyStyle" -> <<XLeaf("colorMode", <<"random">>)>>
      [] tag = "ListStyle" -> <<XLeaf("maxSnippetLines", <<"3">>)>>
      [] tag \in {"Link", "Icon"} -> <<XLeaf("refreshInterval", <<"1">>)>>
      [] tag = "ResourceMap" -> <<XAlias>>
      [] tag = "Alias" -> <<XLeaf("targetHref", <<"t">>)>>
      [] tag = "SchemaData" -> <<XNode("SimpleData", Named, <<XText(<<"v">>)>>)>>
      [] tag = "SimpleArrayData" -> <<XLeaf("value", <<"v">>)>>
      [] tag = "ext" -> <<XLeaf("k", <<"v">>)>>

\* what stands next to the recognized child
Unrecognized ==
    {XEmpty("u", <<>>), XNode("u", <<>>, <<>>), XLeaf("u", <<"t">>),
     XNode("u", <<>>, <<XLeaf("v", <<"t">>)>>), XNode("u", <<>>, <<XEmpty("v", <<>>)>>)}
Interruptions == {XText(<<"t">>), XComment} \cup Unrecognized

XMixed(tag, kids) == XNode(tag, IF tag = "SimpleArrayData" THEN Named ELSE <<>>, kids)

MixedItems ==
    {XMixed(tag, KnownKids(tag)) : tag \in MixedTags}
    \cup {XMixed(tag, <<i>> \o KnownKids(tag)) : tag \in MixedTags, i \in Interruptions}
    \cup {XMixed(tag, KnownKids(tag) \o <<i>>) : tag \in MixedTags, i \in Interruptions}
    \cup {XMixed(tag, <<KnownKids(tag)[1], XComment>> \o Tail(KnownKids(tag))) :
              tag \in MixedTags}

MixedDocs ==
    {<<x>> : x \in MixedItems}
    \cup {<<XNode("Document", <<>>, <<x, XPoint(CB)>>)>> : x \in MixedItems}
    \cup {<<XComment, x>> : x \in {XMixed(tag, KnownKids(tag)) : tag \in MixedTags}}

InitMixed ==
    /\ doc \in MixedDocs
    /\ events = Tokens(doc)
    /\ Fresh

SpecMixed == InitMixed /\ [][Next]_vars

-----------------------------------------------------------------------------
(* Documents of one Placemark with up to MaxPlaceKids children: fields,      *)
(* geometries, unrecognized elements and a self-closing element              *)

MaxPlaceKids == 3

PlaceFields == {XLeaf("name", <<"a">>), XLeaf("description", <<"d">>), XStyleUrl}
PlaceGeometries == {XPoint(CA), XPoint(CB), XLineString(CAB)}
PlaceOthers == {XLeaf("ext", <<"v">>), XNode("Data", Named, <<XLeaf("value", <<"v">>)>>),
                XEmpty("visibility", <<>>)}
PlaceKids == PlaceFields \cup PlaceGeometries \cup PlaceOthers

InitPlace ==
    /\ doc \in {<<XNode("Placemark", <<>>, ks)>> : ks \in SeqsUpTo(PlaceKids, MaxPlaceKids)}
    /\ events = Tokens(doc)
    /\ Fresh

SpecPlace == InitPlace /\ [][Next]_vars

-----------------------------------------------------------------------------
(* Documents of one Folder or Placemark with each of name, description and   *)
(* styleUrl absent or holding one of two texts, with or without a Point      *)

FieldTexts(name) ==
    {<<>>} \cup {<<XLeaf(name, s)>> : s \in {<<"a">>, <<"b", " ", "c">>}}

FeatureItems ==
    {XNode(tag, <<>>, n \o d \o s \o g) :
        tag \in {"Folder", "Placemark"},
        n \in FieldTexts("name"), d \in FieldTexts("description"),
        s \in FieldTexts("styleUrl"), g \in {<<>>, <<XPoint(CA)>>}}

InitFeature ==
    /\ doc \in {<<x>> : x \in FeatureItems}
    /\ events = Tokens(doc)
    /\ Fresh

SpecFeature == InitFeature /\ [][Next]_vars

-----------------------------------------------------------------------------
(* Claims *)

\* C1: round trip.  Whenever the tree V that read() built from a complete
\* document has been written by the writer and the written text parsed again,
\* the second parse succeeds and yields a tree equal to V.
C1_RoundTrip ==
    (phase = "reread" /\ events = Tokens(doc)) => (reread.st = "ok" /\ reread.val = tree)

\* the sub-parser read_elements or a parent's loop hands an open tag to
SubParsed == {"SimpleData", "SimpleArrayData", "Alias"}
SubParse(evs, i) ==
    CASE evs[i].name = "SimpleData" -> read_simple_data(evs, i + 1, read_attrs(evs[i]))
      [] evs[i].name = "SimpleArrayData" ->
            read_simple_array_data(evs, i + 1, read_attrs(evs[i]))
      [] OTHER -> read_alias(evs, i + 1, read_attrs(evs[i]))
SubFails(evs, i) ==
    evs[i].t = "Start" /\ evs[i].name \in SubParsed /\ SubParse(evs, i).st = "err"

\* C2: first error aborts.  When read() has returned and the sub-parser of
\* some SimpleData, SimpleArrayData or Alias element of the input, at the top
\* level or nested in a SchemaData, ResourceMap or Document, returns an error,
\* read() has returned the error of the first such element and no tree.
C2_FirstErrorAborts ==
    (phase = "read" /\ Len(calls) = 1) =>
        \A i \in 1..Len(events) :
            (SubFails(events, i) /\ \A j \in 1..(i - 1) : ~SubFails(events, j)) =>
                (calls[1].st = "err" /\ calls[1].val = SubParse(events, i).val)

\* the Document Model variant of an element with this name
Recognized == {"Document", "Folder", "Placemark", "Point", "LineString", "LinearRing",
               "Polygon", "MultiGeometry", "Style", "SchemaData", "ResourceMap"}
VariantOf(name) ==
    IF name = "kml" THEN "KmlDocument"
    ELSE IF name \in Recognized THEN name ELSE "Element"

\* the tree of the i-th top-level element of the document, parsed on its own
Alone(i) == read(Tokens(<<doc[i]>>), 1).val

\* C3: sibling wrapping.  When the first read() of a complete document has
\* returned: with no top-level element it returned the no-elements error;
\* with one it returned that element's own variant, unwrapped; with two or
\* more it returned a KmlDocument whose elements are the trees of all the
\* top-level elements, in source order.
C3_SiblingWrapping ==
    (phase = "read" /\ Len(calls) = 1 /\ events = Tokens(doc)) =>
        LET r == calls[1]
        IN  /\ Len(doc) = 0 => (r.st = "err" /\ r.val.e = "NoElements")
            /\ Len(doc) = 1 => (r.st = "ok" /\ r.val.kind = VariantOf(doc[1].name))
            /\ Len(doc) >= 2 =>
                  /\ r.st = "ok"
                  /\ r.val.kind = "KmlDocument"
                  /\ Len(r.val.elements) = Len(doc)
                  /\ \A i \in 1..Len(doc) : r.val.elements[i] = Alone(i)

\* C4: termination.  A read() call that has been entered returns, with a tree
\* or an error (its outcome is never a loop that goes on for ever), whatever
\* finite input the Token Source holds, also when the input ends while a
\* Point, LineString, LinearRing, Placemark or SchemaData element is open.
C4_ReadReturns ==
    phase = "reading" => Outcome.st \in {"ok", "err"}

\* the boundary groups of the Polygon element of the document
GroupsOf(tag) == SelectSeq(doc[1].kids, LAMBDA n : n.name = tag)
HoldsNoRing(group) == \A i \in 1..Len(group.kids) : group.kids[i].name # "LinearRing"
SomeHoldsNoRing(groups) == \E i \in 1..Len(groups) : HoldsNoRing(groups[i])

\* C5: outer-ring requirement.  When read() of a complete Polygon document
\* has returned: if the Polygon holds no outerBoundaryIs group, or one that
\* holds no LinearRing, the result is the invalid-geometry error; if it holds
\* an outer boundary and no innerBoundaryIs group, the result is a Polygon
\* with an empty inner list.
C5_OuterRequired ==
    (phase = "read" /\ Len(calls) = 1) =>
        LET r == calls[1]
            outers == GroupsOf("outerBoundaryIs")
            inners == GroupsOf("innerBoundaryIs")
        IN  /\ (outers = <<>> \/ SomeHoldsNoRing(outers)) =>
                  (r.st = "err" /\ r.val.e = "InvalidGeometry")
            /\ (outers # <<>> /\ ~SomeHoldsNoRing(outers) /\ inners = <<>>) =>
                  (r.st = "ok" /\ r.val.kind = "Polygon" /\ r.val.inner = <<>>)

\* the LinearRing elements of the innerBoundaryIs groups, in source order,
\* each parsed on its own
RingsOf(groups) ==
    Concat(MapSeq(groups, LAMBDA g : SelectSeq(g.kids, LAMBDA n : n.name = "LinearRing")))
RingAlone(ring) == read(Tokens(<<ring>>), 1).val

\* C6: inner-ring accumulation.  When read() of a Polygon document has
\* returned a Polygon, its inner list holds one ring for every LinearRing of
\* every innerBoundaryIs group (n_1 + ... + n_k rings), in source order: the
\* rings of a later group are appended to those of the earlier groups.
C6_InnerAccumulates ==
    (phase = "read" /\ Len(calls) = 1 /\ calls[1].st = "ok") =>
        LET rings == RingsOf(GroupsOf("innerBoundaryIs"))
        IN  /\ Len(calls[1].val.inner) = Len(rings)
            /\ calls[1].val.inner = MapSeq(rings, RingAlone)

\* a Polygon with two innerBoundaryIs groups, the first ending with a ring
\* other than the one the second starts with, has been parsed
C6_Witness ==
    /\ phase = "read" /\ Len(calls) = 1 /\ calls[1].st = "ok"
    /\ LET inners == GroupsOf("innerBoundaryIs")
       IN  /\ Len(inners) >= 2
           /\ inners[1].kids = <<RingA, RingB>>
           /\ inners[2].kids = <<RingA>>
           /\ Len(calls[1].val.inner) = 3

\* the generic Element that stands for an element of the document: its name,
\* its attributes, its text and its child elements in source order
RECURSIVE ElementOf(_)
ElementOf(n) ==
    LET texts == SelectSeq(n.kids, LAMBDA c : c.k = "text")
        elems == SelectSeq(n.kids, LAMBDA c : c.k \in {"node", "empty"})
    IN  [kind |-> "Element", name |-> n.name, attrs |-> read_attrs(n),
         content |-> IF texts = <<>> THEN None ELSE Some(texts[Len(texts)].text),
         children |-> MapSeq(elems, ElementOf)]

\* C7: lossless fallback.  When read() of a complete document of one
\* unrecognized element has returned, the result is the generic Element
\* holding the element's name, attributes, text and all its child elements
\* (self-closing ones and ones named like the parent included) in source
\* order; and once that Element has been written and parsed again, the second
\* parse yields an equal Element.
C7_LosslessFallback ==
    /\ (phase = "read" /\ Len(calls) = 1 /\ events = Tokens(doc)) =>
          (calls[1].st = "ok" /\ calls[1].val = ElementOf(doc[1]))
    /\ (phase = "reread" /\ Len(calls) = 1 /\ events = Tokens(doc)) =>
          (reread.st = "ok" /\ reread.val = tree)

\* the children of a container that are elements of its own, not fields
FolderFields == {"name", "description", "styleUrl"}
ElementKids(n) ==
    SelectSeq(n.kids, LAMBDA c : c.k = "node" /\ ~(n.name = "Folder" /\ c.name \in FolderFields))

\* C8: typed children.  When read() of a complete document of one Folder or
\* Document element has returned, the container's elements are the trees of
\* its child elements in source order, each of the typed variant its name
\* stands for (Placemark, Point, Folder, ...); only a child with an
\* unrecognized name is a generic Element.
C8_TypedChildren ==
    (/\ phase = "read" /\ Len(calls) = 1 /\ events = Tokens(doc)
     /\ Len(doc) = 1 /\ doc[1].name \in {"Folder", "Document"}) =>
        LET r == calls[1]
            kids == ElementKids(doc[1])
        IN  /\ r.st = "ok"
            /\ Len(r.val.elements) = Len(kids)
            /\ \A i \in 1..Len(kids) :
                  /\ r.val.elements[i].kind = VariantOf(kids[i].name)
                  /\ r.val.elements[i] = read(Tokens(<<kids[i]>>), 1).val

ContainerKinds == {"KmlDocument", "Document", "Folder"}

\* a geometry of the placeholder kind, or a MultiGeometry that holds one
RECURSIVE PlaceholderIn(_)
PlaceholderIn(g) ==
    \/ g.kind = "Element"
    \/ g.kind = "MultiGeometry" /\ \E i \in 1..Len(g.geometries) : PlaceholderIn(g.geometries[i])

\* the tree holds, at any depth, a geometry of the placeholder kind
RECURSIVE HasPlaceholder(_)
HasPlaceholder(k) ==
    \/ k.kind = "Placemark" /\ k.geometry # None /\ PlaceholderIn(k.geometry[1])
    \/ k.kind = "MultiGeometry" /\ PlaceholderIn(k)
    \/ k.kind \in ContainerKinds /\ \E i \in 1..Len(k.elements) : HasPlaceholder(k.elements[i])

\* what a tree contributes to the collection, as the claim puts it
Converted(g) == Geometry_try_from(g).val
RECURSIVE Contribution(_)
Contribution(k) ==
    CASE k.kind \in ContainerKinds -> Concat(MapSeq(k.elements, Contribution))
      [] k.kind = "Placemark" ->
            IF k.geometry = None THEN <<>> ELSE <<Converted(k.geometry[1])>>
      [] k.kind = "MultiGeometry" -> MapSeq(k.geometries, Converted)
      [] k.kind \in {"Point", "LineString", "LinearRing", "Polygon"} -> <<Converted(k)>>
      [] OTHER -> <<>>

\* C9: flattening order.  When quick_collection has returned for a tree all
\* of whose geometries have a geo_types equivalent, the result is the
\* collection of the contributions of the tree: for a KmlDocument, Document
\* or Folder the concatenation of its children's contributions in child order
\* (recursively), nothing for a Placemark without geometry, one geometry for a
\* Placemark with a geometry, the converted members in order for a
\* MultiGeometry, nothing for a style or a generic element.
C9_FlatteningOrder ==
    (phase = "flat" /\ ~HasPlaceholder(tree)) =>
        (coll.st = "ok" /\ coll.val.gs = Contribution(tree))

\* a Folder holding a Placemark with a geometry and a Folder of its own has
\* been flattened to the two geometries, the outer Placemark's first
C9_Witness ==
    /\ phase = "flat" /\ tree.kind = "Folder" /\ Len(tree.elements) = 2
    /\ tree.elements[1] = MkPlacemark(Some(MkLineString(CAB)))
    /\ tree.elements[2] = MkContainer("Folder", <<MkPlacemark(Some(MkPoint(CB)))>>)
    /\ coll.st = "ok" /\ Len(coll.val.gs) = 2
    /\ coll.val.gs[1].g = "LineString" /\ coll.val.gs[2].g = "Point"

\* C10: placeholder geometries.  When quick_collection has returned for a
\* tree that holds, at any depth, a geometry of the generic-Element
\* placeholder kind (a Placemark's geometry or a MultiGeometry member, at the
\* root or inside a Folder, Document or KmlDocument), the result is the
\* invalid-geometry "cannot convert" error and no collection.
C10_PlaceholderFails ==
    (phase = "flat" /\ HasPlaceholder(tree)) =>
        (coll.st = "err" /\ coll.val.e = "InvalidGeometry"
                         /\ coll.val.lit = <<"Can't convert geometry">>)

\* the record element of a scalar-field document (inside its Style, if any)
TheRecord == IF doc[1].name = "Style" THEN doc[1].kids[1] ELSE doc[1]

\* the rows of the field table that the document's first child is an instance of
FieldRows ==
    {t \in FieldTable : /\ t[1] = TheRecord.name
                        /\ TheRecord.kids # <<>>
                        /\ TheRecord.kids[1].name = t[2]
                        /\ TheRecord.kids[1].kids # <<>>}
FieldCase(grammars) == doc # <<>> /\ \E t \in FieldRows : t[3] \in grammars
TheRow == CHOOSE t \in FieldRows : TRUE
TheLiteral == TheRecord.kids[1].kids[1].text

StyleSlot(name) ==
    CASE name = "IconStyle" -> "icon"
      [] name = "LabelStyle" -> "label"
      [] name = "LineStyle" -> "line"
      [] name = "PolyStyle" -> "poly"
      [] name = "ListStyle" -> "list"

\* the record read() built for TheRecord
ParsedRecord(t) == IF doc[1].name = "Style" THEN t[StyleSlot(TheRecord.name)][1] ELSE t

\* the field of the Document Model record that a child element is read into
FieldName(child) ==
    CASE child = "altitudeMode" -> "altitude_mode"
      [] child = "colorMode" -> "color_mode"
      [] child = "refreshMode" -> "refresh_mode"
      [] child = "viewRefreshMode" -> "view_refresh_mode"
      [] child = "listItemType" -> "list_item_type"
      [] child = "refreshInterval" -> "refresh_interval"
      [] child = "viewRefreshTime" -> "view_refresh_time"
      [] child = "viewBoundScale" -> "view_bound_scale"
      [] child = "maxSnippetLines" -> "max_snippet_lines"
      [] OTHER -> child

\* the enum fields of Link and Icon are optional
HeldAs(rec, v) == IF rec \in {"Link", "Icon"} THEN Some(v) ELSE v

\* a hotSpot child with its x and y attributes, and the units attributes it has
HotSpotCase ==
    /\ doc # <<>>
    /\ TheRecord.name = "IconStyle"
    /\ TheRecord.kids # <<>>
    /\ TheRecord.kids[1].name = "hotSpot"
    /\ {"x", "y"} \subseteq {a[1] : a \in {TheRecord.kids[1].attrs[i] :
                                              i \in 1..Len(TheRecord.kids[1].attrs)}}
HotSpotMap == read_attrs([attrs |-> TheRecord.kids[1].attrs])
UnitKeys == {k \in {"xunits", "yunits"} : k \in DOMAIN HotSpotMap}
BadUnitKeys == {k \in UnitKeys : from_str("Units", <<HotSpotMap[k]>>).st # "ok"}

\* C11: every enum-valued field the Reader meets (altitudeMode, colorMode,
\* refreshMode, viewRefreshMode, listItemType) is read by its grammar: a
\* literal of the grammar yields the corresponding enum value in the record,
\* and any other literal makes read() return the error of that field family
\* carrying the literal; likewise for the xunits and yunits of a hotSpot.
C11_EnumFields ==
    /\ (phase = "read" /\ Len(calls) = 1 /\ FieldCase(ClosedTypes)) =>
            LET expected == from_str(TheRow[3], TheLiteral)
            IN  IF expected.st = "ok"
                THEN /\ calls[1].st = "ok"
                     /\ ParsedRecord(tree)[FieldName(TheRow[2])]
                            = HeldAs(TheRow[1], expected.val)
                ELSE /\ calls[1].st = "err"
                     /\ calls[1].val = expected.val
    /\ (phase = "read" /\ Len(calls) = 1 /\ HotSpotCase /\ HotSpotMap["x"] \in NumLexemes) =>
            IF BadUnitKeys = {}
            THEN /\ calls[1].st = "ok"
                 /\ \A k \in UnitKeys :
                        ParsedRecord(tree).hot_spot[1][k]
                            = from_str("Units", <<HotSpotMap[k]>>).val
            ELSE /\ calls[1].st = "err"
                 /\ \E k \in BadUnitKeys :
                        calls[1].val = from_str("Units", <<HotSpotMap[k]>>).val

\* the literals of a boolean flag: "1"/"0", and for fill and outline also
\* "true"/"false"
FlagLiterals(grammar) == IF grammar = "Flag" THEN {"1", "0"} ELSE {"1", "0", "true", "false"}

\* C12: for extrude and tessellate only "1" and "0" are accepted, for the fill
\* and outline of a PolyStyle only "1", "0", "true" and "false"; an accepted
\* literal sets the flag, and any other literal makes read() return a parse
\* error carrying the literal instead of being mapped to a boolean.
C12_FlagGrammar ==
    (phase = "read" /\ Len(calls) = 1 /\ FieldCase({"Flag", "Switch"})) =>
        IF TheLiteral[1] \in FlagLiterals(TheRow[3])
        THEN /\ calls[1].st = "ok"
             /\ ParsedRecord(tree)[FieldName(TheRow[2])] = (TheLiteral[1] \in {"1", "true"})
        ELSE /\ calls[1].st = "err"
             /\ calls[1].val.lit = TheLiteral

\* C13: whenever a numeric child field (Scale x/y/z, scale, heading, width,
\* refreshInterval, viewRefreshTime, viewBoundScale, maxSnippetLines) holds
\* text that is not a number, read() returns a number-parse error that
\* carries the unparseable text and names the offending field, and no
\* document is returned.
C13_NumberErrors ==
    (phase = "read" /\ Len(calls) = 1 /\ FieldCase({"Float", "Count"})
        /\ ParseNum(TheLiteral) = None) =>
            /\ calls[1].st = "err"
            /\ calls[1].val.e = "NumParse"
            /\ calls[1].val.lit = TheLiteral
            /\ tree = NoTree
            /\ "field" \in DOMAIN calls[1].val
            /\ calls[1].val.field = TheRow[2]

DataNames == {"SimpleData", "SimpleArrayData"}
NameOf(attrs) == GetKey(read_attrs([attrs |-> attrs]), "name")

\* the texts of the value children of a SimpleArrayData element, in source order
ValueTexts(kids) ==
    LET vs == SelectSeq(kids, LAMBDA n : n.name = "value")
    IN  [i \in 1..Len(vs) |-> IF vs[i].kids = <<>> THEN <<>> ELSE vs[i].kids[1].text]

LacksTuples(n) ==
    /\ n.k = "node"
    /\ n.name \in GeomTags
    /\ \A i \in 1..Len(n.kids) : n.kids[i].name = "coordinates" => n.kids[i].kids = <<>>

RECURSIVE SomeLacksTuples(_)
SomeLacksTuples(forest) ==
    \E i \in 1..Len(forest) : LacksTuples(forest[i]) \/ SomeLacksTuples(forest[i].kids)

\* some geometry value of the tree has an empty coordinate list
RECURSIVE HasEmptyCoords(_)
HasEmptyCoords(k) ==
    CASE k.kind \in {"LineString", "LinearRing"} -> k.coords = <<>>
      [] k.kind = "Polygon" ->
            \/ HasEmptyCoords(k.outer)
            \/ \E i \in 1..Len(k.inner) : HasEmptyCoords(k.inner[i])
      [] k.kind = "MultiGeometry" ->
            \E i \in 1..Len(k.geometries) : HasEmptyCoords(k.geometries[i])
      [] k.kind = "Placemark" -> k.geometry # None /\ HasEmptyCoords(k.geometry[1])
      [] k.kind \in ContainerKinds ->
            \E i \in 1..Len(k.elements) : HasEmptyCoords(k.elements[i])
      [] OTHER -> FALSE

\* C15: a Point, LineString or LinearRing with no coordinates child, or with
\* one that holds no coordinate tuple, makes read() fail with the
\* invalid-geometry error wherever the geometry occurs in the document (top
\* level, Placemark, MultiGeometry, polygon boundary, Folder or Document), and
\* the Reader never builds a geometry value with an empty coordinate list.
C15_CoordinatesRequired ==
    (phase = "read" /\ Len(calls) = 1) =>
        /\ SomeLacksTuples(doc) =>
              calls[1].st = "err" /\ calls[1].val.e = "InvalidGeometry"
        /\ calls[1].st = "ok" => ~HasEmptyCoords(tree)

-----------------------------------------------------------------------------
(* C16 *)

\* the valid "x,y" and "x,y,z" literals
IsPair(s) == Len(s) = 3 /\ s[1] \in NumLexemes /\ s[2] = "," /\ s[3] \in NumLexemes
IsTriple(s) ==
    /\ Len(s) = 5
    /\ s[1] \in NumLexemes /\ s[2] = "," /\ s[3] \in NumLexemes
    /\ s[4] = "," /\ s[5] \in NumLexemes

\* the tuple a valid literal denotes
Denoted(s) ==
    MkCoord(NumOf(s[1]), NumOf(s[3]), IF IsTriple(s) THEN Some(NumOf(s[5])) ELSE None)

Commas(s) == Cardinality({i \in 1..Len(s) : s[i] = ","})

\* C16: Coordinate grammar round trip.  Coord::from_str on a valid "x,y" or
\* "x,y,z" literal gives the tuple the literal denotes, its formatted text has
\* a third component exactly when the literal had one, and parsing that text
\* gives an equal tuple; and coords_from_str applied to the formatted tuples
\* of a non-empty sequence cs, joined by newlines or by any other whitespace
\* run, returns cs in the same order.
C16_CoordRoundTrip ==
    /\ (ty = "Coord" /\ hist[1].k = "text" /\ (IsPair(hist[1].s) \/ IsTriple(hist[1].s))) =>
          /\ Len(hist) >= 2 => hist[2].r = Ok(Denoted(hist[1].s), 0)
          /\ Len(hist) >= 3 => Commas(hist[3].s) = Commas(hist[1].s)
          /\ Len(hist) >= 4 => hist[4].r = hist[2].r
    /\ (ty = "Coords" /\ hist[1].k = "value") =>
          /\ Len(hist) >= 2 =>
                hist[2].s = JoinRuns([i \in 1..Len(hist[1].r.val) |->
                                         Coord_to_string(hist[1].r.val[i])], <<"\n">>)
          /\ Len(hist) >= 3 => hist[3].r = hist[1].r
    /\ (ty = "Coords" /\ hist[1].k = "text" /\ Len(hist) >= 2) =>
          \A cs \in CoordSeqs, ws \in WsRuns :
              hist[1].s = JoinRuns([i \in 1..Len(cs) |-> Coord_to_string(cs[i])], ws)
                  => hist[2].r = Ok(cs, 0)

\* a literal with a fraction part and no third component has been parsed,
\* formatted and parsed again
C16_Witness ==
    /\ ty = "Coord"
    /\ Len(hist) = 4
    /\ hist[1] = Txt(<<"1.0", ",", "-1">>)
    /\ hist[3].s = <<"1", ",", "-1">>
    /\ hist[4].r = Ok(MkCoord(1, 0 - 1, None), 0)

\* a sequence of two tuples, one with and one without a third component, has
\* been formatted and parsed again
C16_SequenceCase ==
    /\ ty = "Coords"
    /\ Len(hist) >= 3
    /\ hist[1].k = "value"
    /\ Len(hist[1].r.val) = 2
    /\ hist[1].r.val[1].z = None
    /\ hist[1].r.val[2].z # None
    /\ hist[3].r.st = "ok"

-----------------------------------------------------------------------------
(* C17 *)

\* the literals the grammar of each closed-set type lists
Listed(t) ==
    CASE t = "AltitudeMode" -> {"clampToGround", "relativeToGround", "absolute"}
      [] t = "ColorMode" -> {"normal", "random"}
      [] t = "RefreshMode" -> {"onChange", "onInterval", "onExpire"}
      [] t = "ViewRefreshMode" -> {"never", "onRequest", "onStop", "onRegion"}
      [] t = "Units" -> {"fraction", "pixels", "insetPixels"}
      [] t = "ListItemType" -> {"check", "checkOffOnly", "checkHideChildren", "radioFolder"}

\* the error of a type: Error::Invalid<Type>
OwnError(t) == "Invalid" \o t

\* C17: for every value v of a closed-set value type, from_str(to_string(v))
\* is v and to_string(v) is a listed literal of the type; from_str accepts
\* exactly the listed literals of the type, in their exact case, and returns
\* the type's own error carrying the text for every other string.
C17_ClosedSets ==
    ty \in ClosedTypes =>
        /\ (hist[1].k = "value" /\ Len(hist) >= 2) =>
              \E l \in Listed(ty) : hist[2].s = <<l>>
        /\ (hist[1].k = "value" /\ Len(hist) >= 3) => hist[3].r = hist[1].r
        /\ (hist[1].k = "text" /\ Len(hist) >= 2) =>
              IF \E l \in Listed(ty) : hist[1].s = <<l>>
              THEN /\ hist[2].r.st = "ok"
                   /\ hist[2].r.val \in Variants(ty)
                   /\ Len(hist) >= 3 => hist[3].s = hist[1].s
              ELSE hist[2].r = Err(OwnError(ty), hist[1].s, 0)

\* a value has been formatted and parsed back, and a text that differs from a
\* listed literal only in case has been refused
C17_Witness ==
    /\ ty = "ViewRefreshMode"
    /\ Len(hist) = 3
    /\ hist[1] = Val(Ok("OnRegion", 0))
    /\ hist[2].s = <<"onRegion">>
    /\ hist[3].r = Ok("OnRegion", 0)

C17_RefusedCase ==
    /\ ty = "AltitudeMode"
    /\ hist[1] = Txt(<<"ABSOLUTE">>)
    /\ Len(hist) = 2
    /\ hist[2].r = Err("InvalidAltitudeMode", <<"ABSOLUTE">>, 0)

-----------------------------------------------------------------------------
(* C18 *)

\* the identity attribute of a record and the value of its dedicated field
IdentityKey(rec) ==
    IF rec.kind \in {"SimpleData", "SimpleArrayData"} THEN "name" ELSE "id"
IdentityValue(rec) ==
    IF rec.kind \in {"SimpleData", "SimpleArrayData"} THEN Some(rec.name) ELSE rec.id

HasIdentity(rec) ==
    /\ rec.kind \in StyleKinds \cup {"SimpleData", "SimpleArrayData"}
    /\ IdentityValue(rec) # None

\* how many attributes of an open tag are named key
CountKey(as, key) == Cardinality({i \in 1..Len(as) : as[i][1] = key})

\* C18: for a record with an identity-like attribute (id on Style and the
\* sub-style records, name on SimpleData and SimpleArrayData), the open tag
\* the Writer emits starts with that attribute, holding the value of the
\* dedicated field, followed by the entries of the attribute mapping under
\* other keys, and no open tag written holds two attributes named id or two
\* named name.
C18_IdentityFirstOnce ==
    (phase = "written" /\ HasIdentity(tree)) =>
        LET as == written[1].attrs
            key == IdentityKey(tree)
            rest == DOMAIN tree.attrs \ {key}
        IN  /\ as # <<>>
            /\ as[1] = <<key, IdentityValue(tree)[1]>>
            /\ CountKey(as, key) = 1
            /\ Len(as) = 1 + Cardinality(rest)
            /\ {as[i] : i \in 2..Len(as)} = {<<k, tree.attrs[k]>> : k \in rest}
            /\ \A i \in 1..Len(written) :
                  written[i].t = "Start" =>
                      CountKey(written[i].attrs, "id") <= 1
                      /\ CountKey(written[i].attrs, "name") <= 1

\* the same for the extended-data entries only, whose writers filter the mapping
C18_NamedEntries ==
    (phase = "written" /\ tree.kind \in {"SimpleData", "SimpleArrayData"}) =>
        LET as == written[1].attrs
            rest == DOMAIN tree.attrs \ {"name"}
        IN  /\ as[1] = <<"name", tree.name>>
            /\ CountKey(as, "name") = 1
            /\ {as[i] : i \in 2..Len(as)} = {<<k, tree.attrs[k]>> : k \in rest}

\* the same for styles whose mapping has no entry under id
C18_DistinctKeys ==
    (phase = "written" /\ HasIdentity(tree) /\ tree.kind \in StyleKinds
     /\ "id" \notin DOMAIN tree.attrs
     /\ (tree.kind = "Style" /\ tree.line # None => "id" \notin DOMAIN tree.line[1].attrs)) =>
        C18_IdentityFirstOnce

-----------------------------------------------------------------------------
(* C19 *)

FlagNames == {"extrude", "tessellate", "fill", "outline"}

\* the text of the first element called name among the written events
FirstText(name) ==
    LET i == CHOOSE j \in 1..Len(written) :
                 /\ written[j].t = "Start" /\ written[j].name = name
                 /\ \A k \in 1..(j - 1) : ~(written[k].t = "Start" /\ written[k].name = name)
    IN  written[i + 1].text

Written(name) == \E j \in 1..Len(written) : written[j].t = "Start" /\ written[j].name = name

\* C19: every boolean flag the Writer emits (extrude, tessellate, and fill and
\* outline of a PolyStyle) has the text "1" or "0", and the flag of the
\* record written is "1" when the field is true and "0" when it is false.
C19_FlagsAsDigits ==
    phase = "written" =>
        /\ \A j \in 1..Len(written) :
              (written[j].t = "Start" /\ written[j].name \in FlagNames) =>
                  /\ written[j + 1].t = "Text"
                  /\ written[j + 1].text \in {<<"1">>, <<"0">>}
        /\ \A f \in {"extrude", "tessellate"} :
              (tree.kind \in {"Point", "LineString", "LinearRing", "Polygon"}
               /\ f \in DOMAIN tree) =>
                  Written(f) /\ FirstText(f) = (IF tree[f] THEN <<"1">> ELSE <<"0">>)
        /\ \A f \in {"fill", "outline"} :
              tree.kind = "PolyStyle" =>
                  Written(f) /\ FirstText(f) = (IF tree[f] THEN <<"1">> ELSE <<"0">>)

\* the same for the flags of the geometries only
C19_GeometryFlags ==
    (phase = "written" /\ tree.kind \in {"Point", "LineString", "LinearRing", "Polygon"}) =>
        C19_FlagsAsDigits

-----------------------------------------------------------------------------
(* C20 *)

\* the optional fields of a record, each with the child element it is written as
OptionalFields(rec) ==
    CASE rec.kind \in {"Link", "LinkTypeIcon"} ->
            {<<"href", "href">>, <<"refresh_mode", "refreshMode">>,
             <<"view_refresh_mode", "viewRefreshMode">>, <<"view_format", "viewFormat">>,
             <<"http_query", "httpQuery">>}
      [] rec.kind = "Placemark" ->
            {<<"name", "name">>, <<"description", "description">>,
             <<"style_url", "styleUrl">>, <<"geometry", "Point">>}
      [] rec.kind = "Folder" ->
            {<<"name", "name">>, <<"description", "description">>,
             <<"style_url", "styleUrl">>}
      [] rec.kind = "Alias" -> {<<"target_href", "targetHref">>, <<"source_href", "sourceHref">>}
      [] rec.kind = "IconStyle" -> {<<"hot_spot", "hotSpot">>}
      [] rec.kind = "Style" ->
            {<<"icon", "IconStyle">>, <<"label", "LabelStyle">>, <<"line", "LineStyle">>,
             <<"poly", "PolyStyle">>, <<"list", "ListStyle">>}
      [] OTHER -> {}

\* the numeric children and the default of each
NumericDefaults ==
    {<<"scale", 1>>, <<"refreshInterval", 4>>, <<"viewRefreshTime", 4>>,
     <<"viewBoundScale", 1>>}

\* the events without the numeric children that hold their default
RECURSIVE WithoutDefaults(_)
WithoutDefaults(evs) ==
    IF evs = <<>> THEN <<>>
    ELSE IF /\ Len(evs) >= 3
            /\ evs[1].t = "Start" /\ evs[2].t = "Text" /\ evs[3].t = "End"
            /\ \E d \in NumericDefaults :
                  evs[1].name = d[1] /\ ParseNum(evs[2].text) = Some(d[2])
         THEN WithoutDefaults(SubSeq(evs, 4, Len(evs)))
         ELSE <<Head(evs)>> \o WithoutDefaults(Tail(evs))

\* C20: the Writer emits no child element for an optional field that is
\* absent; reading the written text gives the record that was written, so an
\* absent optional stays absent; and reading the text without its numeric
\* children that hold their default (scale 1, refresh interval 4, view refresh
\* time 4, view-bound scale 1) gives the same record as reading it with them.
C20_OmittedFields ==
    /\ phase \in {"written", "reread"} =>
          \A f \in OptionalFields(tree) : tree[f[1]] = None => ~Written(f[2])
    /\ (phase = "reread" /\ OptionalFields(tree) # {}) =>
          /\ reread.st = "ok"
          /\ \A f \in OptionalFields(tree) :
                (tree[f[1]] = None) <=> (reread.val[f[1]] = None)
          /\ LET bare == read(Tokenize(WithoutDefaults(written)), 1)
             IN  bare.st = "ok" /\ bare.val = reread.val

\* a Link with no href and the default refresh interval has been written and
\* read back: the text holds refreshInterval and no href
C20_Witness ==
    /\ phase = "reread"
    /\ tree.kind = "Link"
    /\ tree.href = None
    /\ tree.refresh_mode # None
    /\ tree.refresh_interval = 4
    /\ Written("refreshInterval")
    /\ Len(WithoutDefaults(written)) < Len(written)
    /\ reread = Ok(tree, Len(Tokenize(written)) + 1)

-----------------------------------------------------------------------------
(* C21 *)

\* the attributes of an open tag as a mapping
AttrMap(as) == [k \in {as[i][1] : i \in 1..Len(as)} |->
                    as[CHOOSE i \in 1..Len(as) : as[i][1] = k][2]]

IdentityKinds == StyleKinds \cup {"SimpleData", "SimpleArrayData"}

\* the record rec holds the attributes of the open tag of node n: all of them
\* in attrs, but for the identity attribute of its kind, held in its own field
AttrsKept(n, rec) ==
    LET m == AttrMap(n.attrs)
        key == IdentityKey(rec)
    IN  IF rec.kind \in IdentityKinds
        THEN /\ rec.attrs = [k \in DOMAIN m \ {key} |-> m[k]]
             /\ IdentityValue(rec) = (IF key \in DOMAIN m THEN Some(m[key]) ELSE None)
        ELSE rec.attrs = m

\* the records built for the child of the document's element, if it has one
ChildRecords(rec) ==
    IF rec.kind = "Style"
    THEN {rec[f][1] : f \in {g \in {"icon", "label", "line", "poly", "list"} : rec[g] # None}}
    ELSE IF rec.kind \in {"KmlDocument", "Document", "Folder"}
    THEN {rec.elements[i] : i \in 1..Len(rec.elements)}
    ELSE {}

HasChildElement(n) == n.kids # <<>> /\ n.kids[1].k = "node" /\ n.name \in {"kml", "Document", "Folder", "Style"}

\* C21: every record the Reader builds holds in attrs exactly the attributes
\* of its element's open tag, with their values, minus the identity attribute
\* of its kind (id on the style records, name on SimpleData and
\* SimpleArrayData), which is in the dedicated field and not in attrs; the
\* attributes of the kml root are in KmlDocument.attrs.
C21_AttrsPassThrough ==
    (Len(calls) >= 1 /\ calls[1].st = "ok") =>
        /\ AttrsKept(doc[1], calls[1].val)
        /\ HasChildElement(doc[1]) =>
              \A c \in ChildRecords(calls[1].val) : AttrsKept(doc[1].kids[1], c)

\* the same for every element but the kml root
C21_BelowRoot ==
    (Len(calls) >= 1 /\ calls[1].st = "ok" /\ doc[1].name # "kml") => C21_AttrsPassThrough

\* the same for the element inside a kml root
C21_InsideRoot ==
    (Len(calls) >= 1 /\ calls[1].st = "ok" /\ doc[1].name = "kml" /\ HasChildElement(doc[1])) =>
        /\ ChildRecords(calls[1].val) # {}
        /\ \A c \in ChildRecords(calls[1].val) : AttrsKept(doc[1].kids[1], c)

-----------------------------------------------------------------------------
(* C22 *)

\* the entries whose name ends in ".kml" in some case
Qualifying == {i \in 1..Len(archive) : archive[i].name[Len(archive[i].name)] \in
                                          {".kml", ".KML", ".Kml"}}

LowestQualifying == CHOOSE i \in Qualifying : \A j \in Qualifying : i <= j

\* C22: from_kmz_path feeds the Reader the bytes of the lowest-index entry
\* whose name ends in ".kml" compared case-insensitively, whatever the
\* entries before it are, and never a later qualifying entry; it returns an
\* error when no entry qualifies.  (An archive whose lowest qualifying entry
\* cannot itself be opened is left out.)
C22_FirstKmlEntry ==
    phase # "closed" =>
        IF Qualifying = {} THEN opened.st = "err"
        ELSE archive[LowestQualifying].openable =>
                /\ opened = Ok(archive[LowestQualifying].bytes, LowestQualifying)
                /\ doc = archive[LowestQualifying].bytes
                /\ events = Tokens(doc)

\* the same for the archives whose entries before the lowest qualifying one
\* can all be opened
C22_ReadableArchive ==
    (Qualifying # {} /\ \A j \in 1..(LowestQualifying - 1) : archive[j].openable) =>
        C22_FirstKmlEntry

-----------------------------------------------------------------------------
(* C23: a sub-parser stops only at its own close *)

\* the sub-parser the dispatcher calls for the element opened at event i
OpenedFor(evs, i) ==
    LET a == read_attrs(evs[i])
        name == evs[i].name
    IN  CASE name \in {"kml", "Document"} -> read_elements(evs, i + 1, <<>>)
          [] name = "Scale" -> read_scale(evs, i + 1, a)
          [] name = "Point" -> read_point(evs, i + 1, a)
          [] name = "LineString" -> read_line_string(evs, i + 1, a)
          [] name = "LinearRing" -> read_linear_ring(evs, i + 1, a)
          [] name = "Polygon" -> read_polygon(evs, i + 1, a)
          [] name = "MultiGeometry" -> read_multi_geometry(evs, i + 1, a)
          [] name = "Placemark" -> read_placemark(evs, i + 1, a)
          [] name = "Folder" -> read_folder(evs, i + 1, a)
          [] name = "Style" -> read_style(evs, i + 1, a)
          [] name = "IconStyle" -> read_icon_style(evs, i + 1, a)
          [] name = "LabelStyle" -> read_label_style(evs, i + 1, a)
          [] name = "LineStyle" -> read_line_style(evs, i + 1, a)
          [] name = "PolyStyle" -> read_poly_style(evs, i + 1, a)
          [] name = "ListStyle" -> read_list_style(evs, i + 1, a)
          [] name = "Link" -> read_link(evs, i + 1, a)
          [] name = "Icon" -> read_link_type_icon(evs, i + 1, a)
          [] name = "ResourceMap" -> read_resource_map(evs, i + 1, a)
          [] name = "Alias" -> read_alias(evs, i + 1, a)
          [] name = "SchemaData" -> read_schema_data(evs, i + 1, a)
          [] name = "SimpleArrayData" -> read_simple_array_data(evs, i + 1, a)
          [] OTHER -> read_element(evs, i + 1, name, a)

\* the close event that matches the open event i
Opens(evs, i, j) == Cardinality({k \in i..j : evs[k].t = "Start"})
Closes(evs, i, j) == Cardinality({k \in i..j : evs[k].t = "End"})
CloseOf(evs, i) ==
    CHOOSE j \in (i + 1)..Len(evs) :
        /\ Opens(evs, i, j) = Closes(evs, i, j)
        /\ \A k \in (i + 1)..(j - 1) : Opens(evs, i, k) > Closes(evs, i, k)

\* the elements of the input some sub-parser is opened for
SubParserOpens ==
    {i \in 1..Len(events) : events[i].t = "Start" /\ events[i].name \in MixedTags}

\* C23: when read() has returned, every sub-parser opened for an element of the
\* input that returns Ok has stopped just after the close event matching that
\* element: the next event it leaves belongs to the parent.
C23_StopsAtOwnClose ==
    (phase = "read" /\ Len(calls) = 1) =>
        \A i \in SubParserOpens :
            OpenedFor(events, i).st = "ok" =>
                OpenedFor(events, i).pos = CloseOf(events, i) + 1

\* the children of the element opened at event i are all elements or comments
\* the sub-parser has an arm for: no text, no self-closing element and no
\* unrecognized element stands among them
OnlyKnown ==
    \A x \in Interruptions \ {XComment} :
        \A j \in 1..Len(doc) :
            /\ doc[j] # x
            /\ doc[j].k = "node" =>
                  \A c \in 1..Len(doc[j].kids) :
                      /\ doc[j].kids[c] # x
                      /\ doc[j].kids[c].k = "node" =>
                            \A d \in 1..Len(doc[j].kids[c].kids) :
                                doc[j].kids[c].kids[d] # x

NoKmlElement == \A i \in 1..Len(events) : events[i].name # "kml"

\* on inputs without a kml element whose recognized elements hold only
\* recognized children, every sub-parser that returns Ok has stopped just after
\* its own close
C23_KnownChildren ==
    (phase = "read" /\ Len(calls) = 1 /\ OnlyKnown /\ NoKmlElement) =>
        \A i \in SubParserOpens :
            OpenedFor(events, i).st = "ok" =>
                OpenedFor(events, i).pos = CloseOf(events, i) + 1

\* a sub-parser returned Ok at its own close, in a Document holding a sibling
C23_Witness ==
    /\ phase = "read" /\ Len(calls) = 1 /\ OnlyKnown
    /\ Len(events) > 2 /\ events[1].name = "Document" /\ events[2].name = "Folder"
    /\ OpenedFor(events, 2).st = "ok"
    /\ OpenedFor(events, 2).pos = CloseOf(events, 2) + 1
    /\ OpenedFor(events, 2).pos < Len(events)

-----------------------------------------------------------------------------
(* C24: an unrecognized child is passed over *)

\* the elements whose sub-parser has no arm that keeps an unrecognized child
Passing == MixedTags \ {"kml", "Document", "Folder", "Placemark", "ext"}

\* the input holds u among the children of a Passing element, at the top level
\* or inside the Document
HoldsChild(n, u) ==
    /\ n.k = "node" /\ n.name \in Passing
    /\ \E c \in 1..Len(n.kids) : n.kids[c] = u
Holds(u) ==
    \E j \in 1..Len(doc) :
        \/ HoldsChild(doc[j], u)
        \/ /\ doc[j].k = "node" /\ doc[j].name = "Document"
           /\ \E c \in 1..Len(doc[j].kids) : HoldsChild(doc[j].kids[c], u)

\* the input with the unrecognized children of its Passing elements taken out
Kept(x) == x \notin Unrecognized
PassedOver(n) ==
    IF n.k = "node" /\ n.name \in Passing THEN [n EXCEPT !.kids = SelectSeq(n.kids, Kept)]
    ELSE n
WithoutUnrecognized(d) ==
    [j \in 1..Len(d) |->
        IF d[j].k = "node" /\ d[j].name = "Document"
        THEN [d[j] EXCEPT !.kids = [c \in 1..Len(d[j].kids) |-> PassedOver(d[j].kids[c])]]
        ELSE PassedOver(d[j])]

\* C24: when read() has returned for an input in which an element without an
\* arm for unrecognized children holds one (self-closing, empty, with text or
\* with nested children), it has returned the tree it returns for the input
\* without that child: no failure, the children after it parsed into their
\* fields, nothing of the element outside it.
C24_UnrecognizedPassedOver ==
    (phase = "read" /\ Len(calls) = 1 /\ \E u \in Unrecognized : Holds(u)) =>
        /\ calls[1].st = "ok"
        /\ calls[1].val = read(Tokens(WithoutUnrecognized(doc)), 1).val

\* the same for an unrecognized child written <u></u>, without content
C24_EmptyPair ==
    (phase = "read" /\ Len(calls) = 1 /\ Holds(XNode("u", <<>>, <<>>))) =>
        /\ calls[1].st = "ok"
        /\ calls[1].val = read(Tokens(WithoutUnrecognized(doc)), 1).val

\* <Document><Scale><u></u><x>4</x></Scale><Point>..</Point></Document> was read
C24_Witness ==
    /\ phase = "read" /\ Len(calls) = 1
    /\ doc = <<XNode("Document", <<>>,
                 <<XNode("Scale", <<>>, <<XNode("u", <<>>, <<>>), XLeaf("x", <<"4">>)>>),
                   XPoint(CB)>>)>>
    /\ calls[1].st = "ok"
    /\ Len(calls[1].val.elements) = 2
    /\ calls[1].val.elements[1].x = 4

-----------------------------------------------------------------------------
(* C25: the last geometry of a Placemark, and its other children *)

PlaceKidsOf == doc[1].kids
GeometryKids == SelectSeq(PlaceKidsOf, LAMBDA x : x \in PlaceGeometries)
OtherKids == SelectSeq(PlaceKidsOf, LAMBDA x : x \in PlaceOthers)

\* C25: when read() has returned a Placemark, its geometry is the last geometry
\* child of the source (None without one), and its children are the generic
\* Elements of the source children that are neither name, description, styleUrl
\* nor a geometry, in source order; no earlier geometry is among them.
C25_LastGeometryAndChildren ==
    (phase = "read" /\ Len(calls) = 1 /\ calls[1].st = "ok") =>
        /\ calls[1].val.kind = "Placemark"
        /\ calls[1].val.geometry =
              IF GeometryKids = <<>> THEN None
              ELSE Some(read(Tokens(<<GeometryKids[Len(GeometryKids)]>>), 1).val)
        /\ calls[1].val.children = [c \in 1..Len(OtherKids) |-> ElementOf(OtherKids[c])]

\* the same for a Placemark without a self-closing child
C25_PairedChildren ==
    (phase = "read" /\ Len(calls) = 1 /\ calls[1].st = "ok"
        /\ \A c \in 1..Len(PlaceKidsOf) : PlaceKidsOf[c].k # "empty") =>
        /\ calls[1].val.kind = "Placemark"
        /\ calls[1].val.geometry =
              IF GeometryKids = <<>> THEN None
              ELSE Some(read(Tokens(<<GeometryKids[Len(GeometryKids)]>>), 1).val)
        /\ calls[1].val.children = [c \in 1..Len(OtherKids) |-> ElementOf(OtherKids[c])]

\* a Placemark with two geometries and an unrecognized child between them was read
C25_Witness ==
    /\ phase = "read" /\ Len(calls) = 1 /\ calls[1].st = "ok"
    /\ PlaceKidsOf = <<XPoint(CA), XLeaf("ext", <<"v">>), XLineString(CAB)>>
    /\ calls[1].val.geometry = Some(MkLineString(CAB))
    /\ Len(calls[1].val.children) = 1

-----------------------------------------------------------------------------
(* C26: the Writer emits the fields the Reader populates *)

FeatureFields(v) == <<v.name, v.description, v.style_url>>

\* C26: whenever the Folder or Placemark read() built has been written and the
\* written text parsed again, the second parse yields a record of the same kind
\* with the same name, description and style_url.
C26_FieldsWritten ==
    (phase = "reread" /\ tree.kind \in {"Folder", "Placemark"}) =>
        /\ reread.st = "ok"
        /\ reread.val.kind = tree.kind
        /\ FeatureFields(reread.val) = FeatureFields(tree)

\* the same for a Placemark, and for a Folder without a styleUrl child
C26_PlacemarkFields ==
    (phase = "reread" /\ tree.kind \in {"Folder", "Placemark"}
        /\ (tree.kind = "Folder" => tree.style_url = None)) =>
        /\ reread.st = "ok"
        /\ reread.val.kind = tree.kind
        /\ FeatureFields(reread.val) = FeatureFields(tree)

\* a Placemark with the three fields was written and parsed again
C26_Witness ==
    /\ phase = "reread" /\ tree.kind = "Placemark"
    /\ FeatureFields(tree) = <<Some(<<"a">>), Some(<<"a">>), Some(<<"a">>)>>
    /\ reread.st = "ok"
    /\ FeatureFields(reread.val) = FeatureFields(tree)

-----------------------------------------------------------------------------
(* C27: comments between children are skipped *)

\* the input without its comments
RECURSIVE NoComments(_)
NoComments(d) ==
    LET kept == SelectSeq(d, LAMBDA x : x.k # "comment")
    IN  [j \in 1..Len(kept) |->
            IF kept[j].k = "node" THEN [kept[j] EXCEPT !.kids = NoComments(kept[j].kids)]
            ELSE kept[j]]

HasComment == NoComments(doc) # doc

\* C27: when read() has returned for an input with a comment before, between
\* or after the children of a container (or before the root element), it has
\* returned what it returns for the input without the comment: the same tree,
\* or the same error.
C27_CommentsSkipped ==
    (phase = "read" /\ Len(calls) = 1 /\ HasComment) =>
        /\ calls[1].st = read(Tokens(NoComments(doc)), 1).st
        /\ calls[1].val = read(Tokens(NoComments(doc)), 1).val

\* <Document><Scale><!-- --><x>4</x></Scale><Point>..</Point></Document> was
\* read: the comment did not end the loop of Scale
C27_Witness ==
    /\ phase = "read" /\ Len(calls) = 1
    /\ doc = <<XNode("Document", <<>>,
                 <<XNode("Scale", <<>>, <<XComment, XLeaf("x", <<"4">>)>>), XPoint(CB)>>)>>
    /\ calls[1].st = "ok"
    /\ Len(calls[1].val.elements) = 2
    /\ calls[1].val.elements[1].x = 4

-----------------------------------------------------------------------------
(* C28: read() after end-of-input *)

\* the k-th call left the reader at end-of-input: every event is consumed
AtEndAfter(k) == calls[k].pos > Len(events)

\* C28: once a read() call has returned with the input consumed up to
\* end-of-input, the next call entered returns (it does not loop), and every
\* later call that has returned has returned the no-elements error, so no
\* element is returned a second time.
C28_RepeatedRead ==
    /\ (phase = "reading" /\ Len(calls) >= 1 /\ AtEndAfter(Len(calls))) =>
            Outcome.st \in {"ok", "err"}
    /\ \A k \in 1..Len(calls) : \A j \in (k + 1)..Len(calls) :
            AtEndAfter(k) => (calls[j].st = "err" /\ calls[j].val.e = "NoElements")

\* a second call returned after the first returned a tree and consumed the input
C28_Witness ==
    /\ phase = "read" /\ Len(calls) = 2
    /\ calls[1].st = "ok" /\ AtEndAfter(1) /\ events = Tokens(doc) /\ Len(doc) = 2
    /\ calls[2].st = "err" /\ calls[2].val.e = "NoElements"

-----------------------------------------------------------------------------
(* C29: the Writer's events are well nested *)

\* the number of elements open after the first k events
OpenAfter(evs, k) == Opens(evs, 1, k) - Closes(evs, 1, k)

WellNested(evs) ==
    \* no close without an open, and nothing left open at the end
    /\ \A k \in 1..Len(evs) : OpenAfter(evs, k) >= 0
    /\ OpenAfter(evs, Len(evs)) = 0
    \* each open is closed, at its own depth, by a close of the same name
    /\ \A i \in 1..Len(evs) :
          evs[i].t = "Start" =>
              /\ \E j \in (i + 1)..Len(evs) : Opens(evs, i, j) = Closes(evs, i, j)
              /\ evs[CloseOf(evs, i)].t = "End"
              /\ evs[CloseOf(evs, i)].name = evs[i].name
    \* text stands inside an open element
    /\ \A i \in 1..Len(evs) : evs[i].t \in {"Text", "CData"} => OpenAfter(evs, i) > 0

\* C29: whenever KmlWriter.write has returned Ok for a tree, the events it
\* emitted are well nested: every open is matched by a later close of the same
\* name in last-opened-first-closed order, text is inside an open element, and
\* no element is left open.
C29_WellNested ==
    phase \in {"written", "reread"} => WellNested(written)

\* a container holding a Placemark with a geometry was written
C29_Witness ==
    /\ phase = "written"
    /\ tree.kind \in {"KmlDocument", "Document", "Folder"}
    /\ \E i \in 1..Len(tree.elements) :
          tree.elements[i].kind = "Placemark" /\ tree.elements[i].geometry # None
    /\ \E i \in 1..Len(written) : written[i].t = "Text"
    /\ WellNested(written)

-----------------------------------------------------------------------------
(* C30: no removal from an empty list *)

\* C30: no read() call panics at the removal of a first item: the outcome of a
\* call that has been entered, and of every call that has returned, is a tree,
\* an error or a loop, never a panic; and a Point read from several coordinate
\* tuples holds the first of them.
C30_NoEmptyRemoval ==
    /\ phase = "reading" => Outcome.st # "panic"
    /\ \A k \in 1..Len(calls) : calls[k].st # "panic"
    /\ (phase = "read" /\ Len(calls) = 1 /\ doc = <<XPoint(CAB)>>) =>
            (calls[1].st = "ok" /\ calls[1].val.coord = MkPoint(CA).coord)

\* a Point without coordinates was read and refused
C30_Witness ==
    /\ phase = "read" /\ Len(calls) = 1
    /\ doc = <<XNode("Point", <<>>, <<>>)>>
    /\ calls[1].st = "err" /\ calls[1].val.e = "InvalidGeometry"

=============================================================================
